---------------------------- MODULE Spec2Model ----------------------------
(***************************************************************************)
(* A model of ferrum's trust boundary: the capability model of             *)
(* src/permissions.rs and the module resolver / loader / cache of          *)
(* src/module_loader.rs.                                                   *)
(*                                                                         *)
(* Strings are TLA+ strings; TLC evaluates Len, \o and SubSeq on them, so  *)
(* textual prefix tests are computed character by character as in Rust.    *)
(* Option<T> is modelled as a sequence: None is << >>, Some(x) is <<x>>.   *)
(***************************************************************************)
EXTENDS Integers, Sequences, FiniteSets, TLC

VARIABLES
    perms,      \* Permissions { read, write, net, env, run }
    origin,     \* how the Permissions value was built: "default", "allow_all", "granted"
    nGrants,    \* number of grant operations applied to perms so far
    lastCheck,  \* Option of the last check performed: [cat, resource, state, origin, result]
    config,     \* ModuleLoaderConfig of the loader
    fs,         \* the file system: path -> file
    nWrites,    \* number of external file changes so far
    cache,      \* ModuleCache.inner: canonical specifier -> ResolvedModule
    cacheBy,    \* history: the call whose insert wrote each cache entry
    loading,    \* ModuleLoader.loading: Vec<String>
    calls,      \* the load / load_module calls made on the loader
    lastOp,     \* Option of the last resolver / loader function applied on its own, with its result
    cacheLog,   \* history: the ModuleCache calls made so far, with what each returned
    disk,       \* the file system ops::fs works on: files, directories, working directory
    lastFs,     \* Option of the last ops::fs operation, with its result and what it touched
    timers,     \* TimerRegistry.timers: TimerId -> TimerHandle
    next_id,    \* TimerRegistry.next_id
    tasks,      \* the tasks spawned by set_timeout, one per timer
    callback_queue, \* the unbounded channel to the callback executor task
    executed,   \* history: the timers whose callback the executor task has run
    clearResult \* history: what clear returned for each id it was called with

vars == <<perms, origin, nGrants, lastCheck, config, fs, nWrites, cache, cacheBy, loading, calls, lastOp,
          cacheLog, disk, lastFs, timers, next_id, tasks, callback_queue, executed, clearResult>>

permVars == <<perms, origin, nGrants, lastCheck>>

loaderVars == <<config, fs, nWrites, cache, cacheBy, loading, calls>>

fsVars == <<disk, lastFs>>

timerVars == <<timers, next_id, tasks, callback_queue, executed, clearResult>>

\* the state of the native operations and of the cache history
hostVars == <<cacheLog, fsVars, timerVars>>

---------------------------------------------------------------------------
(* Bounds of the model *)

\* grant operations applied to one Permissions value
MaxGrants == 2

\* load / load_module calls made on one loader
NCalls == 2

\* load_module calls made on one loader when all of them ask for one module
NSameModuleCalls == 3

\* external changes of a source file's content
MaxWrites == 1

\* ImportMap::insert calls made on one import map
MaxInserts == 2

\* calls made on one ModuleCache
MaxCacheCalls == 5

\* ops::fs operations run one after the other
MaxFsOps == 2

\* set_timeout calls made on one TimerRegistry
MaxTimers == 2

---------------------------------------------------------------------------
(* Option and string helpers *)

None == << >>

Some(x) == <<x>>

IsSome(o) == o # << >>

Unwrap(o) == o[1]

\* str::starts_with
StartsWith(s, p) == Len(p) <= Len(s) /\ SubSeq(s, 1, Len(p)) = p

\* &s[n..]
DropChars(s, n) == SubSeq(s, n + 1, Len(s))

CharAt(s, i) == SubSeq(s, i, i)

---------------------------------------------------------------------------
(* src/permissions.rs *)

Categories == {"read", "write", "net", "env", "run"}

Denied == [kind |-> "Denied", paths |-> {}]

Granted == [kind |-> "Granted", paths |-> {}]

PromptPending == [kind |-> "PromptPending", paths |-> {}]

GrantedPartial(items) == [kind |-> "GrantedPartial", paths |-> items]

\* a plausible bug: exact membership only, the prefix test forgotten
is_granted_exact(state, check) ==
    CASE state.kind = "Granted" -> TRUE
      [] state.kind = "Denied" -> FALSE
      [] state.kind = "PromptPending" -> FALSE
      [] state.kind = "GrantedPartial" ->
            IF IsSome(check) THEN Unwrap(check) \in state.paths ELSE FALSE

\* a plausible bug: the match arms of Granted and Denied swapped
is_granted_swapped(state, check) ==
    CASE state.kind = "Granted" -> FALSE
      [] state.kind = "Denied" -> TRUE
      [] state.kind = "PromptPending" -> FALSE
      [] state.kind = "GrantedPartial" ->
            IF IsSome(check)
            THEN \/ Unwrap(check) \in state.paths
                 \/ \E p \in state.paths : StartsWith(Unwrap(check), p)
            ELSE FALSE

\* PermissionState::is_granted
is_granted(state, check) ==
    CASE state.kind = "Granted" -> TRUE
      [] state.kind = "Denied" -> FALSE
      [] state.kind = "PromptPending" -> FALSE
      [] state.kind = "GrantedPartial" ->
            IF IsSome(check)
            THEN \/ Unwrap(check) \in state.paths
                 \/ \E p \in state.paths : StartsWith(Unwrap(check), p)
            ELSE FALSE

\* the text of each category's PermissionError::Denied
DeniedMessage(cat, resource) ==
    CASE cat = "read" -> "Requires read access to '" \o resource \o "'"
      [] cat = "write" -> "Requires write access to '" \o resource \o "'"
      [] cat = "net" -> "Requires network access to '" \o resource \o "'"
      [] cat = "env" -> "Requires access to environment variable '" \o resource \o "'"
      [] cat = "run" -> "Requires permission to run '" \o resource \o "'"

PermOk == [ok |-> TRUE, err |-> "", msg |-> ""]

PermDenied(msg) == [ok |-> FALSE, err |-> "Denied", msg |-> msg]

\* ReadPermission::check .. RunPermission::check, on the category's state
check(p, cat, resource) ==
    IF is_granted(p[cat], Some(resource))
    THEN PermOk
    ELSE PermDenied(DeniedMessage(cat, resource))

check_read(p, path) == check(p, "read", path)

check_write(p, path) == check(p, "write", path)

check_net(p, address) == check(p, "net", address)

\* Permissions::default
Default == [c \in Categories |-> Denied]

\* ReadPermission::grant_all .. RunPermission::grant_all
grant_all(p, cat) == [p EXCEPT ![cat] = Granted]

\* grant_paths, grant_addresses, grant_vars, grant_commands: the Vec is
\* collected into a HashSet that overwrites the category's state
grant_subset(p, cat, items) == [p EXCEPT ![cat] = GrantedPartial(items)]

\* Permissions::allow_all
allow_all ==
    grant_all(grant_all(grant_all(grant_all(grant_all(Default, "read"), "write"), "net"), "env"), "run")

\* the resource strings checked
Resources == {"/tmp", "/tmp/file.txt", "/tmpfoo", "/etc/passwd", "example.com", ""}

\* the allow-lists handed to the grant_subset operations
Allowlists == {{"/tmp"}, {"/tmp", "/home/user"}, {"example.com"}, {}}

---------------------------------------------------------------------------
(* std::path, as far as the loader uses it (Unix paths) *)

RECURSIVE SplitAcc(_, _, _)
SplitAcc(s, i, cur) ==
    IF i > Len(s) THEN <<cur>>
    ELSE IF CharAt(s, i) = "/" THEN <<cur>> \o SplitAcc(s, i + 1, "")
    ELSE SplitAcc(s, i + 1, cur \o CharAt(s, i))

\* str::split('/')
Split(s) == SplitAcc(s, 1, "")

RECURSIVE Join(_, _)
\* [&str]::join(sep)
Join(segs, sep) ==
    IF Len(segs) = 0 THEN ""
    ELSE IF Len(segs) = 1 THEN segs[1]
    ELSE segs[1] \o sep \o Join(Tail(segs), sep)

RECURSIVE Reverse(_)
Reverse(q) == IF Len(q) = 0 THEN << >> ELSE Reverse(Tail(q)) \o <<q[1]>>

\* Path::has_root
HasRoot(p) == StartsWith(p, "/")

RECURSIVE NamesOf(_, _, _)
NamesOf(segs, i, first) ==
    IF i > Len(segs) THEN << >>
    ELSE IF segs[i] = "" THEN NamesOf(segs, i + 1, first)
    ELSE IF segs[i] = "." /\ ~first THEN NamesOf(segs, i + 1, FALSE)
    ELSE <<segs[i]>> \o NamesOf(segs, i + 1, FALSE)

\* Path::components: RootDir is "/", CurDir is "." (kept only as the first
\* component of a relative path), ParentDir is "..", the rest are Normal
Components(p) ==
    (IF HasRoot(p) THEN <<"/">> ELSE << >>) \o NamesOf(Split(p), 1, ~HasRoot(p))

\* PathBuf::push of one component
PushComp(buf, comp) ==
    IF comp = "/" THEN "/"
    ELSE IF buf = "" THEN comp
    ELSE IF CharAt(buf, Len(buf)) = "/" THEN buf \o comp
    ELSE buf \o "/" \o comp

RECURSIVE BuildPath(_, _, _)
BuildPath(comps, i, buf) ==
    IF i > Len(comps) THEN buf ELSE BuildPath(comps, i + 1, PushComp(buf, comps[i]))

\* Path::parent: None when the path ends in the root or is empty
Parent(p) ==
    LET comps == Components(p)
    IN  IF Len(comps) = 0 \/ comps[Len(comps)] = "/" THEN None
        ELSE Some(BuildPath(SubSeq(comps, 1, Len(comps) - 1), 1, ""))

\* Path::join
PathJoin(base, rel) ==
    IF HasRoot(rel) THEN rel
    ELSE IF base = "" THEN rel
    ELSE IF CharAt(base, Len(base)) = "/" THEN base \o rel
    ELSE base \o "/" \o rel

RECURSIVE LastDot(_, _)
LastDot(s, i) == IF i = 0 THEN 0 ELSE IF CharAt(s, i) = "." THEN i ELSE LastDot(s, i - 1)

\* Path::extension: the text after the last '.' of the file name, without the dot
Extension(p) ==
    LET comps == Components(p)
        name == IF Len(comps) = 0 THEN "" ELSE comps[Len(comps)]
        dot == LastDot(name, Len(name))
    IN  IF name \in {"", "/", ".."} \/ dot <= 1 THEN None
        ELSE Some(DropChars(name, dot))

Upper == <<"A","B","C","D","E","F","G","H","I","J","K","L","M","N","O","P","Q","R","S","T","U","V","W","X","Y","Z">>

Lower == <<"a","b","c","d","e","f","g","h","i","j","k","l","m","n","o","p","q","r","s","t","u","v","w","x","y","z">>

LowerChar(c) == IF \E i \in 1..26 : Upper[i] = c THEN Lower[CHOOSE i \in 1..26 : Upper[i] = c] ELSE c

RECURSIVE to_lowercase(_)
to_lowercase(s) == IF s = "" THEN "" ELSE LowerChar(CharAt(s, 1)) \o to_lowercase(DropChars(s, 1))

---------------------------------------------------------------------------
(* src/module_loader.rs: normalize_path, ModuleType, ImportMap *)

RECURSIVE NormStack_keep_parent(_, _, _)
\* a plausible bug: a '..' that finds the stack empty is pushed, not dropped
NormStack_keep_parent(comps, i, stack) ==
    IF i > Len(comps) THEN stack
    ELSE IF comps[i] = ".." THEN
        NormStack_keep_parent(comps, i + 1,
            IF Len(stack) > 0 THEN SubSeq(stack, 1, Len(stack) - 1) ELSE Append(stack, ".."))
    ELSE IF comps[i] = "." THEN NormStack_keep_parent(comps, i + 1, stack)
    ELSE NormStack_keep_parent(comps, i + 1, Append(stack, comps[i]))

RECURSIVE NormStack(_, _, _)
NormStack(comps, i, stack) ==
    IF i > Len(comps) THEN stack
    ELSE IF comps[i] = ".." THEN
        NormStack(comps, i + 1, IF Len(stack) > 0 THEN SubSeq(stack, 1, Len(stack) - 1) ELSE stack)
    ELSE IF comps[i] = "." THEN NormStack(comps, i + 1, stack)
    ELSE NormStack(comps, i + 1, Append(stack, comps[i]))

normalize_path(path) ==
    LET path_str == BuildPath(NormStack(Components(path), 1, << >>), 1, "")
    IN  IF HasRoot(path) /\ ~StartsWith(path_str, "/") THEN "/" \o path_str ELSE path_str

\* ModuleType::from_extension
from_extension(ext) ==
    LET e == to_lowercase(ext)
    IN  CASE e = ".mjs" -> "ESModule"
          [] e = ".cjs" -> "CommonJS"
          [] e = ".json" -> "JSON"
          [] e = ".ts" -> "TypeScript"
          [] e = ".js" -> "ESModule"
          [] OTHER -> "Unknown"

\* the place of a new entry in a list sorted by descending prefix length, after
\* the entries whose prefix is at least as long (sort_by is stable)
InsertSorted(sorted, e) ==
    LET k == Cardinality({i \in 1..Len(sorted) : Len(sorted[i].prefix) >= Len(e.prefix)})
    IN  SubSeq(sorted, 1, k) \o <<e>> \o SubSeq(sorted, k + 1, Len(sorted))

RECURSIVE SortByPrefixLenDesc(_)
\* entries.sort_by(|a, b| b.prefix.len().cmp(&a.prefix.len()))
SortByPrefixLenDesc(es) ==
    IF Len(es) = 0 THEN << >>
    ELSE InsertSorted(SortByPrefixLenDesc(SubSeq(es, 1, Len(es) - 1)), es[Len(es)])

\* a plausible bug: the entry is pushed and the list is left in insertion order
import_map_insert_unsorted(entries, prefix, target) ==
    Append(entries, [prefix |-> prefix, target |-> target])

\* ImportMap::insert
import_map_insert(entries, prefix, target) ==
    SortByPrefixLenDesc(Append(entries, [prefix |-> prefix, target |-> target]))

\* ImportMap::resolve
import_map_resolve(entries, specifier) ==
    LET hits == {i \in 1..Len(entries) : StartsWith(specifier, entries[i].prefix)}
    IN  IF hits = {} THEN None
        ELSE LET i == CHOOSE j \in hits : \A k \in hits : j <= k
             IN  Some(entries[i].target \o DropChars(specifier, Len(entries[i].prefix)))

---------------------------------------------------------------------------
(* src/module_loader.rs: the resolver *)

Ok(v) == [ok |-> TRUE, val |-> v]

\* a ModuleError: its variant and the string it carries
Err(kind, payload) == [ok |-> FALSE, kind |-> kind, payload |-> payload]

\* Path::exists: a file, or a directory that holds one
Exists(files, p) == p \in DOMAIN files \/ \E f \in DOMAIN files : StartsWith(f, p \o "/")

\* the fixed probe list of resolve_bare_specifier
ProbeSuffixes == <<".js", ".mjs", ".ts", "/index.js", "/index.mjs">>

\* a plausible bug: only the base directory's node_modules is probed, the walk
\* never moves up to the parent directory
BareWalk_no_ascent(files, current, specifier) ==
    LET node_modules == PathJoin(PathJoin(current, "node_modules"), specifier)
        found == {i \in 1..Len(ProbeSuffixes) : Exists(files, node_modules \o ProbeSuffixes[i])}
        package_json == PathJoin(node_modules, "package.json")
        main == IF package_json \in DOMAIN files THEN files[package_json].main ELSE None
        main_path == IF IsSome(main) THEN PathJoin(node_modules, Unwrap(main)) ELSE ""
    IN  IF found # {}
        THEN Ok(node_modules \o ProbeSuffixes[CHOOSE i \in found : \A j \in found : i <= j])
        ELSE IF IsSome(main) /\ Exists(files, main_path) THEN Ok(main_path)
        ELSE Err("NotFound", "Cannot find module '" \o specifier \o "'")

RECURSIVE BareWalk(_, _, _)
\* the loop of resolve_bare_specifier, from directory current upward
BareWalk(files, current, specifier) ==
    LET node_modules == PathJoin(PathJoin(current, "node_modules"), specifier)
        found == {i \in 1..Len(ProbeSuffixes) : Exists(files, node_modules \o ProbeSuffixes[i])}
        package_json == PathJoin(node_modules, "package.json")
        main == IF package_json \in DOMAIN files THEN files[package_json].main ELSE None
        main_path == IF IsSome(main) THEN PathJoin(node_modules, Unwrap(main)) ELSE ""
    IN  IF found # {}
        THEN Ok(node_modules \o ProbeSuffixes[CHOOSE i \in found : \A j \in found : i <= j])
        ELSE IF IsSome(main) /\ Exists(files, main_path) THEN Ok(main_path)
        ELSE IF IsSome(Parent(current)) THEN BareWalk(files, Unwrap(Parent(current)), specifier)
        ELSE Err("NotFound", "Cannot find module '" \o specifier \o "'")

\* ModuleLoader::resolve_bare_specifier
resolve_bare_specifier(cfg, files, specifier) == BareWalk(files, cfg.base_dir, specifier)

RECURSIVE trim_start_matches(_, _)
\* str::trim_start_matches(pat)
trim_start_matches(s, pat) ==
    IF StartsWith(s, pat) THEN trim_start_matches(DropChars(s, Len(pat)), pat) ELSE s

\* the relative-path arm of resolve
resolve_relative(cfg, specifier, referrer) ==
    IF IsSome(referrer)
    THEN IF StartsWith(Unwrap(referrer), "http")
         THEN LET rsplit == Reverse(Split(Unwrap(referrer)))
                  url_path == Join(Tail(rsplit), "/")
              IN  url_path \o "/" \o trim_start_matches(specifier, "./")
         ELSE LET parent == Parent(Unwrap(referrer))
                  referrer_dir == IF IsSome(parent) THEN Unwrap(parent) ELSE "."
              IN  normalize_path(PathJoin(referrer_dir, specifier))
    ELSE normalize_path(PathJoin(cfg.base_dir, specifier))

\* a plausible bug: the allow_remote test of the URL arm is missing
resolve_remote_ungated(cfg, files, specifier, referrer) ==
    LET mapped == IF IsSome(cfg.import_map)
                  THEN import_map_resolve(Unwrap(cfg.import_map), specifier)
                  ELSE None
    IN  IF IsSome(mapped) THEN Ok(Unwrap(mapped))
        ELSE IF StartsWith(specifier, "https://") \/ StartsWith(specifier, "http://")
        THEN Ok(specifier)
        ELSE IF StartsWith(specifier, "/") THEN Ok(specifier)
        ELSE IF StartsWith(specifier, "./") \/ StartsWith(specifier, "../")
        THEN Ok(resolve_relative(cfg, specifier, referrer))
        ELSE resolve_bare_specifier(cfg, files, specifier)

\* a plausible bug: the import map is consulted for bare specifiers only, after
\* the URL, absolute and relative arms
resolve_map_last(cfg, files, specifier, referrer) ==
    LET mapped == IF IsSome(cfg.import_map)
                  THEN import_map_resolve(Unwrap(cfg.import_map), specifier)
                  ELSE None
    IN  IF StartsWith(specifier, "https://") \/ StartsWith(specifier, "http://")
        THEN IF ~cfg.allow_remote
             THEN Err("PermissionDenied", "Remote modules are disabled")
             ELSE Ok(specifier)
        ELSE IF StartsWith(specifier, "/") THEN Ok(specifier)
        ELSE IF StartsWith(specifier, "./") \/ StartsWith(specifier, "../")
        THEN Ok(resolve_relative(cfg, specifier, referrer))
        ELSE IF IsSome(mapped) THEN Ok(Unwrap(mapped))
        ELSE resolve_bare_specifier(cfg, files, specifier)

\* ModuleLoader::resolve
resolve(cfg, files, specifier, referrer) ==
    LET mapped == IF IsSome(cfg.import_map)
                  THEN import_map_resolve(Unwrap(cfg.import_map), specifier)
                  ELSE None
    IN  IF IsSome(mapped) THEN Ok(Unwrap(mapped))
        ELSE IF StartsWith(specifier, "https://") \/ StartsWith(specifier, "http://")
        THEN IF ~cfg.allow_remote
             THEN Err("PermissionDenied", "Remote modules are disabled")
             ELSE Ok(specifier)
        ELSE IF StartsWith(specifier, "/") THEN Ok(specifier)
        ELSE IF StartsWith(specifier, "./") \/ StartsWith(specifier, "../")
        THEN Ok(resolve_relative(cfg, specifier, referrer))
        ELSE resolve_bare_specifier(cfg, files, specifier)

---------------------------------------------------------------------------
(* src/module_loader.rs: source acquisition and dependency extraction *)

ModuleSource(specifier, code, module_type) ==
    [specifier |-> specifier, code |-> code, module_type |-> module_type]

ResolvedModule(specifier, source, dependencies) ==
    [specifier |-> specifier, source |-> source, dependencies |-> dependencies]

\* a plausible bug: the file is read without the read capability being checked
load_local_unchecked(p, files, path) ==
    IF path \notin DOMAIN files
    THEN Err("ResolutionError", "Failed to read file: " \o path)
    ELSE Ok(ModuleSource(path, files[path].code,
                         IF IsSome(Extension(path))
                         THEN from_extension(Unwrap(Extension(path)))
                         ELSE "ESModule"))

\* ModuleLoader::load_local
load_local(p, files, path) ==
    IF ~check_read(p, path).ok
    THEN Err("PermissionDenied", "Permission denied: " \o check_read(p, path).msg)
    ELSE IF path \notin DOMAIN files
    THEN Err("ResolutionError", "Failed to read file: " \o path)
    ELSE Ok(ModuleSource(path, files[path].code,
                         IF IsSome(Extension(path))
                         THEN from_extension(Unwrap(Extension(path)))
                         ELSE "ESModule"))

\* url::Url::parse(url).host_str(), for the http and https URLs of the model:
\* None stands for a parse error, the host is the text between "//" and the
\* next "/"
UrlHost(url) ==
    LET rest == IF StartsWith(url, "https://") THEN Some(DropChars(url, 8))
                ELSE IF StartsWith(url, "http://") THEN Some(DropChars(url, 7))
                ELSE None
    IN  IF IsSome(rest) /\ Split(Unwrap(rest))[1] # "" THEN Some(Split(Unwrap(rest))[1]) ELSE None

\* ModuleLoader::load_remote
load_remote(p, url) ==
    IF ~check_net(p, url).ok
    THEN Err("PermissionDenied", "Permission denied: " \o check_net(p, url).msg)
    ELSE IF ~IsSome(UrlHost(url)) THEN Err("InvalidSpecifier", url)
    ELSE IF ~check_net(p, Unwrap(UrlHost(url))).ok
    THEN Err("PermissionDenied", "Permission denied: " \o check_net(p, Unwrap(UrlHost(url))).msg)
    ELSE Err("NetworkError", "Remote module loading not yet implemented: " \o url)

\* the source acquisition of ModuleLoader::load, after its cache lookup
load_uncached(p, files, specifier) ==
    IF StartsWith(specifier, "http") THEN load_remote(p, specifier) ELSE load_local(p, files, specifier)

\* ModuleLoader::load on a loader no other call is running on: the cache
\* lookup, then the source acquisition
load(cfg, p, files, c, specifier) ==
    IF cfg.cache_enabled /\ specifier \in DOMAIN c
    THEN Ok(c[specifier].source)
    ELSE load_uncached(p, files, specifier)

\* The source text is a sequence of statements, one per line; a statement has
\* the shape one of the three patterns matches ("import_from", "import_call",
\* "export_from") or none ("other"), and the specifier it names.
RECURSIVE MatchesOf(_, _, _)
\* re.captures_iter(&source.code) for the pattern of one shape
MatchesOf(code, shape, i) ==
    IF i > Len(code) THEN << >>
    ELSE (IF code[i].shape = shape THEN <<code[i].spec>> ELSE << >>) \o MatchesOf(code, shape, i + 1)

\* a plausible bug: the pattern of the static import is missing from the list
parse_dependencies_no_static(source) ==
    MatchesOf(source.code, "import_call", 1) \o MatchesOf(source.code, "export_from", 1)

\* ModuleLoader::parse_dependencies: one pass over the source per pattern
parse_dependencies(source) ==
    MatchesOf(source.code, "import_from", 1)
        \o MatchesOf(source.code, "import_call", 1)
        \o MatchesOf(source.code, "export_from", 1)

---------------------------------------------------------------------------
(* src/module_loader.rs: ModuleCache and the Loading Set *)

\* a plausible bug: an entry already present is kept (first write wins)
cache_insert_if_absent(c, specifier, module) ==
    [s \in DOMAIN c \cup {specifier} |-> IF s \in DOMAIN c THEN c[s] ELSE module]

\* ModuleCache::insert (HashMap::insert: the new value replaces the old)
cache_insert(c, specifier, module) ==
    [s \in DOMAIN c \cup {specifier} |-> IF s = specifier THEN module ELSE c[s]]

\* ModuleCache::get
cache_get(c, specifier) == IF specifier \in DOMAIN c THEN Some(c[specifier]) ELSE None

\* ModuleCache::contains
cache_contains(c, specifier) == specifier \in DOMAIN c

\* a plausible bug: clear drops nothing
cache_clear_keeps(c) == c

\* ModuleCache::clear (HashMap::clear)
cache_clear(c) == [s \in {} |-> 0]

\* a plausible bug: an off-by-one scan that never looks at the first entry
loading_contains_skip_first(l, specifier) == \E i \in 2..Len(l) : l[i] = specifier

\* loading.contains(&specifier.to_string())
loading_contains(l, specifier) == \E i \in 1..Len(l) : l[i] = specifier

RetainKeep(x, specifier) == x # specifier

\* loading.retain(|s| s != &resolved_specifier)
loading_retain(l, specifier) == SelectSeq(l, LAMBDA x : RetainKeep(x, specifier))

---------------------------------------------------------------------------
(* The loader's environment: configurations, files, requests *)

File(code, main) == [code |-> code, main |-> main]

Stmt(shape, spec) == [shape |-> shape, spec |-> spec]

CodeA == <<Stmt("import_from", "./b.js")>>

CodeA2 == <<Stmt("export_from", "./c.js"), Stmt("import_from", "./b.js")>>

\* the contents an external change may give a source file
Contents == {CodeA2}

\* the files whose content changes while the loader runs
ChangingFiles == {"/proj/a.js"}

InitialFs ==
    [f \in {"/proj/a.js", "/proj/b.js", "/proj/secret.js", "/proj/node_modules/lib.js"} |->
        IF f = "/proj/a.js" THEN File(CodeA, None) ELSE File(<< >>, None)]

\* {"imports": {"app/": "/proj/"}}
AppImportMap == import_map_insert(<< >>, "app/", "/proj/")

Configs ==
    [cache_enabled : BOOLEAN, allow_remote : BOOLEAN,
     import_map : {None, Some(AppImportMap)}, base_dir : {"/proj"}]

\* ModuleLoaderConfig::default, with /proj as the current directory
DefaultConfig ==
    [cache_enabled |-> TRUE, allow_remote |-> TRUE, import_map |-> None, base_dir |-> "/proj"]

\* --allow-read-path /proj/a.js,/proj/missing.js,/proj/node_modules --allow-net-domain example.com
PartialPerms ==
    grant_subset(grant_subset(Default, "read", {"/proj/a.js", "/proj/missing.js", "/proj/node_modules"}),
                 "net", {"example.com"})

\* the Permissions values the loaders of the model are constructed with
LoaderPerms == {Default, allow_all, PartialPerms}

Request(specifier, referrer) == [specifier |-> specifier, referrer |-> referrer]

\* the (specifier, referrer) pairs handed to load_module
Requests ==
    { Request("/proj/a.js", None),
      Request("./a.js", None),
      Request("app/a.js", None),
      Request("/proj/secret.js", None),
      Request("/proj/missing.js", None),
      Request("https://example.com/m.js", None),
      Request("lib", None),
      Request("a.js", None) }

\* the canonical specifiers handed to load
LoadRequests == {"/proj/a.js", "/proj/secret.js", "https://example.com/m.js"}

\* the calls made on the loader
Calls == DOMAIN calls

IdleCall ==
    [api |-> "none", pc |-> "idle", specifier |-> "", referrer |-> None,
     resolved |-> None, source |-> None, module |-> None, result |-> None,
     pushed |-> FALSE, inserted |-> FALSE, acquisitions |-> 0,
     retry |-> FALSE, live |-> FALSE, succeeded |-> {}]

---------------------------------------------------------------------------
(* The environment of the native operations: ops::fs and ops::timers *)

\* the files, the directories and the working directory at program start
InitialDisk ==
    [files |-> [p \in {"/etc/passwd", "/tmp/a.txt"} |-> IF p = "/etc/passwd" THEN "root" ELSE "a"],
     dirs |-> {"/", "/etc", "/tmp", "/work"},
     cwd |-> "/work"]

\* no ModuleCache call, no ops::fs operation and no timer yet (TimerRegistry::new)
InitHostIdle ==
    /\ cacheLog = << >>
    /\ disk = InitialDisk
    /\ lastFs = None
    /\ timers = << >>
    /\ next_id = 1
    /\ tasks = << >>
    /\ callback_queue = << >>
    /\ executed = {}
    /\ clearResult = << >>

---------------------------------------------------------------------------
(* The Permissions value under construction: grant operations and checks *)

InitLoaderIdle ==
    /\ config = DefaultConfig
    /\ fs = InitialFs
    /\ nWrites = 0
    /\ cache = << >>
    /\ cacheBy = << >>
    /\ loading = << >>
    /\ calls = [c \in 1..NCalls |-> IdleCall]

InitPerm ==
    /\ perms = Default
    /\ origin = "default"
    /\ nGrants = 0
    /\ lastCheck = None
    /\ lastOp = None
    /\ InitHostIdle
    /\ InitLoaderIdle

\* Permissions::allow_all()
AllowAll ==
    /\ origin = "default"
    /\ nGrants = 0
    /\ perms' = allow_all
    /\ origin' = "allow_all"
    /\ UNCHANGED <<nGrants, lastCheck>>
    /\ UNCHANGED <<loaderVars, lastOp>>
    /\ UNCHANGED hostVars

\* perms.<cat>.grant_all()
GrantAll(cat) ==
    /\ nGrants < MaxGrants
    /\ perms' = grant_all(perms, cat)
    /\ origin' = "granted"
    /\ nGrants' = nGrants + 1
    /\ UNCHANGED lastCheck
    /\ UNCHANGED <<loaderVars, lastOp>>
    /\ UNCHANGED hostVars

\* perms.<cat>.grant_paths / grant_addresses / grant_vars / grant_commands(items)
GrantSubset(cat, items) ==
    /\ nGrants < MaxGrants
    /\ perms' = grant_subset(perms, cat, items)
    /\ origin' = "granted"
    /\ nGrants' = nGrants + 1
    /\ UNCHANGED lastCheck
    /\ UNCHANGED <<loaderVars, lastOp>>
    /\ UNCHANGED hostVars

\* perms.<cat>.check(resource)
CheckResource(cat, resource) ==
    /\ lastCheck' = Some([cat |-> cat, resource |-> resource, state |-> perms[cat],
                          origin |-> origin, result |-> check(perms, cat, resource)])
    /\ UNCHANGED <<perms, origin, nGrants>>
    /\ UNCHANGED <<loaderVars, lastOp>>
    /\ UNCHANGED hostVars

NextPerm ==
    \/ AllowAll
    \/ \E cat \in Categories : GrantAll(cat)
    \/ \E cat \in Categories, items \in Allowlists : GrantSubset(cat, items)
    \/ \E cat \in Categories, resource \in Resources : CheckResource(cat, resource)

SpecPerm == InitPerm /\ [][NextPerm]_vars

---------------------------------------------------------------------------
(* The loader: ModuleLoader::new, then load and load_module calls *)

OriginOf(p) == IF p = Default THEN "default" ELSE IF p = allow_all THEN "allow_all" ELSE "granted"

\* ModuleLoader::new(permissions, config)
Init ==
    /\ perms \in LoaderPerms
    /\ origin = OriginOf(perms)
    /\ nGrants = 0
    /\ lastCheck = None
    /\ config \in Configs
    /\ fs = InitialFs
    /\ nWrites = 0
    /\ cache = << >>
    /\ cacheBy = << >>
    /\ loading = << >>
    /\ calls = [c \in 1..NCalls |-> IdleCall]
    /\ lastOp = None
    /\ InitHostIdle

Returned(c) == calls[c].pc = "done"

InFlight(c) == calls[c].pc \notin {"idle", "done", "cancelled"}

\* the step after the Loading Set insert / after the source is acquired
AfterPush == IF config.cache_enabled THEN "load_cache" ELSE "load_src"

AfterLoad == IF config.cache_enabled THEN "cache_insert" ELSE "retain"

Return(c, result) == [calls EXCEPT ![c].pc = "done", ![c].result = Some(result)]

\* the engine calls load_module(specifier, referrer)
StartLoadModule(c, r) ==
    /\ calls[c].pc = "idle"
    /\ \A d \in Calls : d < c => calls[d].pc # "idle"
    /\ calls' = [calls EXCEPT ![c].api = "load_module", ![c].pc = "check",
                              ![c].specifier = r.specifier, ![c].referrer = r.referrer]
    /\ UNCHANGED <<config, fs, nWrites, cache, cacheBy, loading>>
    /\ UNCHANGED <<permVars, lastOp>>
    /\ UNCHANGED hostVars

\* a caller calls load(specifier) on a canonical specifier
StartLoad(c, s) ==
    /\ calls[c].pc = "idle"
    /\ \A d \in Calls : d < c => calls[d].pc # "idle"
    /\ calls' = [calls EXCEPT ![c].api = "load", ![c].pc = AfterPush,
                              ![c].specifier = s, ![c].resolved = Some(s)]
    /\ UNCHANGED <<config, fs, nWrites, cache, cacheBy, loading>>
    /\ UNCHANGED <<permVars, lastOp>>
    /\ UNCHANGED hostVars

\* history of the retry a call is: an earlier load_module call with the same
\* specifier and referrer has returned an error from source acquisition
\* history: the canonical specifiers for which a load_module call has returned Ok
SucceededFor(c) ==
    {Unwrap(calls[d].resolved) : d \in {e \in Calls \ {c} :
        /\ calls[e].pc = "done" /\ calls[e].api = "load_module"
        /\ Unwrap(calls[e].result).ok}}

IsRetry(c) ==
    \E d \in Calls \ {c} :
        /\ Returned(d) /\ calls[d].api = "load_module"
        /\ calls[d].specifier = calls[c].specifier /\ calls[d].referrer = calls[c].referrer
        /\ calls[d].acquisitions > 0 /\ ~Unwrap(calls[d].result).ok

\* load_module: the circular-dependency check on the specifier as given
CycleCheck(c) ==
    /\ calls[c].pc = "check"
    /\ calls' =
         IF loading_contains(loading, calls[c].specifier)
         THEN [Return(c, Err("CircularDependency", calls[c].specifier)) EXCEPT
                  ![c].retry = IsRetry(c), ![c].succeeded = SucceededFor(c),
                  ![c].live = \E d \in Calls \ {c} : InFlight(d) \/ calls[d].pc = "cancelled"]
         ELSE [calls EXCEPT ![c].pc = "resolve", ![c].retry = IsRetry(c),
                  ![c].succeeded = SucceededFor(c),
                  ![c].live = \E d \in Calls \ {c} : InFlight(d) \/ calls[d].pc = "cancelled"]
    /\ UNCHANGED <<config, fs, nWrites, cache, cacheBy, loading>>
    /\ UNCHANGED <<permVars, lastOp>>
    /\ UNCHANGED hostVars

\* load_module: resolve the specifier, then look the result up in the cache
Resolve(c) ==
    /\ calls[c].pc = "resolve"
    /\ LET r == resolve(config, fs, calls[c].specifier, calls[c].referrer)
           cached == IF r.ok /\ config.cache_enabled THEN cache_get(cache, r.val) ELSE None
       IN  calls' =
             IF ~r.ok THEN Return(c, r)
             ELSE IF IsSome(cached)
             THEN [Return(c, Ok(Unwrap(cached))) EXCEPT ![c].resolved = Some(r.val)]
             ELSE [calls EXCEPT ![c].pc = "push", ![c].resolved = Some(r.val)]
    /\ UNCHANGED <<config, fs, nWrites, cache, cacheBy, loading>>
    /\ UNCHANGED <<permVars, lastOp>>
    /\ UNCHANGED hostVars

\* load_module: self.loading.lock().await.push(resolved_specifier.clone())
Push(c) ==
    /\ calls[c].pc = "push"
    /\ loading' = Append(loading, Unwrap(calls[c].resolved))
    /\ calls' = [calls EXCEPT ![c].pc = AfterPush, ![c].pushed = TRUE]
    /\ UNCHANGED <<config, fs, nWrites, cache, cacheBy>>
    /\ UNCHANGED <<permVars, lastOp>>
    /\ UNCHANGED hostVars

\* what a call does with the source it holds: load returns it, load_module
\* extracts the dependencies and builds the ResolvedModule
WithSource(c, source, acquired) ==
    IF calls[c].api = "load"
    THEN [Return(c, Ok(source)) EXCEPT ![c].source = Some(source),
             ![c].acquisitions = @ + acquired]
    ELSE [calls EXCEPT ![c].pc = AfterLoad, ![c].source = Some(source),
             ![c].acquisitions = @ + acquired,
             ![c].module = Some(ResolvedModule(Unwrap(calls[c].resolved), source,
                                               parse_dependencies(source)))]

\* load: the cache lookup that returns the cached module's source
LoadCache(c) ==
    /\ calls[c].pc = "load_cache"
    /\ LET cached == cache_get(cache, Unwrap(calls[c].resolved))
       IN  calls' = IF IsSome(cached)
                    THEN WithSource(c, Unwrap(cached).source, 0)
                    ELSE [calls EXCEPT ![c].pc = "load_src"]
    /\ UNCHANGED <<config, fs, nWrites, cache, cacheBy, loading>>
    /\ UNCHANGED <<permVars, lastOp>>
    /\ UNCHANGED hostVars

\* load: source acquisition; on an error the `?` operators return it at once.
\* poison is FALSE in the code: TRUE is the plausible bug of caching a
\* placeholder entry for the failed specifier.
LoadSourceStep(c, poison) ==
    /\ calls[c].pc = "load_src"
    /\ LET r == load_uncached(perms, fs, Unwrap(calls[c].resolved))
       IN  /\ calls' = IF r.ok
                       THEN WithSource(c, r.val, 1)
                       ELSE [Return(c, r) EXCEPT ![c].acquisitions = @ + 1]
           /\ IF ~r.ok /\ poison
              THEN /\ cache' = cache_insert(cache, Unwrap(calls[c].resolved),
                                  ResolvedModule(Unwrap(calls[c].resolved),
                                                 ModuleSource(Unwrap(calls[c].resolved), << >>, "Unknown"),
                                                 << >>))
                   /\ cacheBy' = cache_insert(cacheBy, Unwrap(calls[c].resolved), c)
              ELSE UNCHANGED <<cache, cacheBy>>
    /\ UNCHANGED <<config, fs, nWrites, loading>>
    /\ UNCHANGED <<permVars, lastOp>>
    /\ UNCHANGED hostVars

LoadSourcePoison(c) == LoadSourceStep(c, TRUE)

LoadSource(c) == LoadSourceStep(c, FALSE)

\* load_module: self.cache.insert(resolved_specifier.clone(), module.clone()).await
CacheInsert(c) ==
    /\ calls[c].pc = "cache_insert"
    /\ cache' = cache_insert(cache, Unwrap(calls[c].resolved), Unwrap(calls[c].module))
    /\ cacheBy' = [s \in DOMAIN cacheBy \cup {Unwrap(calls[c].resolved)} |->
                      IF s = Unwrap(calls[c].resolved) THEN c ELSE cacheBy[s]]
    /\ calls' = [calls EXCEPT ![c].pc = "retain", ![c].inserted = TRUE]
    /\ UNCHANGED <<config, fs, nWrites, loading>>
    /\ UNCHANGED <<permVars, lastOp>>
    /\ UNCHANGED hostVars

\* load_module: remove the resolved specifier from the loading list, return Ok(module)
Retain(c) ==
    /\ calls[c].pc = "retain"
    /\ loading' = loading_retain(loading, Unwrap(calls[c].resolved))
    /\ calls' = Return(c, Ok(Unwrap(calls[c].module)))
    /\ UNCHANGED <<config, fs, nWrites, cache, cacheBy>>
    /\ UNCHANGED <<permVars, lastOp>>
    /\ UNCHANGED hostVars

\* the awaits of load_module and load, where a pending future can be dropped:
\* the locks of the Loading Set and, with caching enabled, of the cache
AtAwait(c) ==
    \/ calls[c].pc \in {"check", "push", "retain"}
    \/ config.cache_enabled /\ calls[c].pc \in {"resolve", "load_cache", "cache_insert"}

\* the caller drops the future of a call: nothing of it runs any more
Cancel(c) ==
    /\ AtAwait(c)
    /\ calls' = [calls EXCEPT ![c].pc = "cancelled"]
    /\ UNCHANGED <<config, fs, nWrites, cache, cacheBy, loading>>
    /\ UNCHANGED <<permVars, lastOp>>
    /\ UNCHANGED hostVars

\* a source file changes on disk while the loader runs
WriteFile(path, code) ==
    /\ nWrites < MaxWrites
    /\ path \in DOMAIN fs
    /\ fs[path].code # code
    /\ fs' = [fs EXCEPT ![path].code = code]
    /\ nWrites' = nWrites + 1
    /\ UNCHANGED <<config, cache, cacheBy, loading, calls>>
    /\ UNCHANGED <<permVars, lastOp>>
    /\ UNCHANGED hostVars

Next ==
    \/ \E c \in Calls, r \in Requests : StartLoadModule(c, r)
    \/ \E c \in Calls, s \in LoadRequests : StartLoad(c, s)
    \/ \E c \in Calls : CycleCheck(c)
    \/ \E c \in Calls : Resolve(c)
    \/ \E c \in Calls : Push(c)
    \/ \E c \in Calls : LoadCache(c)
    \/ \E c \in Calls : LoadSource(c)
    \/ \E c \in Calls : CacheInsert(c)
    \/ \E c \in Calls : Retain(c)
    \/ \E c \in Calls : Cancel(c)
    \/ \E path \in ChangingFiles, code \in Contents : WriteFile(path, code)

Spec == Init /\ [][Next]_vars

---------------------------------------------------------------------------
(* The resolver, the import map, load and parse_dependencies applied one    *)
(* call at a time to a loader no other call is running on                   *)

\* the (prefix, target) pairs handed to ImportMap::insert
MapEntries ==
    { <<"a/", "X">>, <<"a/b/", "Y">>, <<"https://example.com/", "/vendor/">>, <<"./", "/mapped/">>,
      <<"lib", "https://cdn.example.com/lib.js">> }

\* the specifiers handed to resolve and to ImportMap::resolve
Specifiers ==
    { "a/b/c", "a/c", "lib", "a.js",
      "https://example.com/module.js", "http://other.org/x.js",
      "/usr/local/lib.js", "./utils.js", "../shared/lib.js" }

\* the referrers handed to resolve
Referrers ==
    { None, Some("/home/user/main.js"), Some("main.js"), Some("httpd/a/main.js"),
      Some("https://example.com/a/main.js") }

\* the (specifier, referrer) pairs handed to resolve: every specifier without a
\* referrer and from a local module, the relative ones from every referrer
ResolveRequests ==
    {Request(s, r) : s \in Specifiers, r \in {None, Some("/home/user/main.js")}}
        \cup {Request(s, r) : s \in {"./utils.js", "../shared/lib.js"}, r \in Referrers}

PackageJson(main) == File(<< >>, Some(main))

FilesOf(paths) == [f \in paths |-> File(<< >>, None)]

\* a base directory and the files around it
World(base_dir, files) == [base_dir |-> base_dir, fs |-> files]

\* source files of every module type, lib.js beside the base directory
WorldTypes ==
    World("/proj",
          FilesOf({"/proj/a.js", "/proj/x.ts", "/proj/x.json", "/proj/x.cjs", "/proj/x.mjs",
                   "/proj/x.txt", "/proj/README", "/proj/node_modules/lib.js"}))

\* lib.mjs in the base directory's node_modules, lib.js one directory up
WorldNear ==
    World("/proj/sub", FilesOf({"/proj/sub/node_modules/lib.mjs", "/proj/node_modules/lib.js"}))

\* several probes succeed one directory up, lib.js at the root
WorldOrder ==
    World("/proj/sub",
          FilesOf({"/proj/node_modules/lib.ts", "/proj/node_modules/lib.mjs",
                   "/proj/node_modules/lib/index.js", "/node_modules/lib.js"}))

\* a package.json whose main is missing one directory up, a package with an
\* existing main at the root
WorldMain ==
    World("/proj/sub",
          [f \in {"/proj/node_modules/lib/package.json", "/node_modules/lib/package.json",
                  "/node_modules/lib/dist/main.js"} |->
              IF f = "/proj/node_modules/lib/package.json" THEN PackageJson("gone.js")
              ELSE IF f = "/node_modules/lib/package.json" THEN PackageJson("dist/main.js")
              ELSE File(<< >>, None)])

\* a package with both an index.mjs and a main
WorldIndexAndMain ==
    World("/proj",
          [f \in {"/proj/node_modules/lib/package.json", "/proj/node_modules/lib/dist/main.js",
                  "/proj/node_modules/lib/index.mjs"} |->
              IF f = "/proj/node_modules/lib/package.json" THEN PackageJson("dist/main.js")
              ELSE File(<< >>, None)])

\* a relative base directory, lib.js in the node_modules of the current directory
WorldRelative == World("proj", FilesOf({"node_modules/lib.js"}))

Worlds == {WorldTypes, WorldNear, WorldOrder, WorldMain, WorldIndexAndMain, WorldRelative}

\* the canonical specifiers handed to load
LoadSpecifiers ==
    { "/proj/a.js", "/proj/x.ts", "/proj/x.json", "/proj/x.cjs", "/proj/x.mjs", "/proj/x.txt",
      "/proj/README", "/proj/missing.js", "https://example.com/m.js" }

\* import { foo } from './foo.js'; import bar from './bar.js';
\* import('./dynamic.js'); export { baz } from './baz.js';
CodeTest ==
    <<Stmt("import_from", "./foo.js"), Stmt("import_from", "./bar.js"),
      Stmt("import_call", "./dynamic.js"), Stmt("export_from", "./baz.js")>>

\* import('./b.js'); const x = 1; import y from './b.js';
CodeDup == <<Stmt("import_call", "./b.js"), Stmt("other", ""), Stmt("import_from", "./b.js")>>

\* the source texts handed to parse_dependencies
Codes == {CodeA, CodeA2, CodeTest, CodeDup, << >>}

\* ModuleLoader::new(permissions, config) with ImportMap::new not yet filled
InitResolve ==
    /\ perms \in {Default, allow_all}
    /\ origin = OriginOf(perms)
    /\ nGrants = 0
    /\ lastCheck = None
    /\ \E w \in Worlds, remote \in BOOLEAN :
          /\ config = [cache_enabled |-> TRUE, allow_remote |-> remote,
                       import_map |-> None, base_dir |-> w.base_dir]
          /\ fs = w.fs
    /\ nWrites = 0
    /\ cache = << >>
    /\ cacheBy = << >>
    /\ loading = << >>
    /\ calls = [c \in 1..NCalls |-> IdleCall]
    /\ lastOp = None
    /\ InitHostIdle

\* the entries of the configured import map
EntriesOf(cfg) == IF IsSome(cfg.import_map) THEN Unwrap(cfg.import_map) ELSE << >>

\* import_map.insert(prefix, target) on the import map of the configuration;
\* lastOp is the last function applied under the configuration as it is now
ImportMapInsert(prefix, target) ==
    /\ Len(EntriesOf(config)) < MaxInserts
    /\ config' = [config EXCEPT !.import_map = Some(import_map_insert(EntriesOf(config), prefix, target))]
    /\ lastOp' = None
    /\ UNCHANGED <<fs, nWrites, cache, cacheBy, loading, calls>>
    /\ UNCHANGED permVars
    /\ UNCHANGED hostVars

\* import_map.resolve(specifier)
ImportMapResolve(specifier) ==
    /\ lastOp' = Some([op |-> "import_map_resolve", specifier |-> specifier,
                       result |-> import_map_resolve(EntriesOf(config), specifier)])
    /\ UNCHANGED loaderVars
    /\ UNCHANGED permVars
    /\ UNCHANGED hostVars

\* loader.resolve(specifier, referrer)
ResolveSpecifier(specifier, referrer) ==
    /\ lastOp' = Some([op |-> "resolve", specifier |-> specifier, referrer |-> referrer,
                       result |-> resolve(config, fs, specifier, referrer)])
    /\ UNCHANGED loaderVars
    /\ UNCHANGED permVars
    /\ UNCHANGED hostVars

\* loader.load(specifier)
LoadSpecifier(specifier) ==
    /\ lastOp' = Some([op |-> "load", specifier |-> specifier,
                       result |-> load(config, perms, fs, cache, specifier)])
    /\ UNCHANGED loaderVars
    /\ UNCHANGED permVars
    /\ UNCHANGED hostVars

\* loader.parse_dependencies(source)
ParseDependencies(code) ==
    /\ lastOp' = Some([op |-> "parse_dependencies", code |-> code,
                       result |-> parse_dependencies(ModuleSource("test.js", code, "ESModule"))])
    /\ UNCHANGED loaderVars
    /\ UNCHANGED permVars
    /\ UNCHANGED hostVars

\* compile_module_impl: the resolved specifier is handed to load_module with
\* the same referrer, and load_module resolves it once more
ResolveAgain ==
    /\ IsSome(lastOp)
    /\ Unwrap(lastOp).op = "resolve"
    /\ Unwrap(lastOp).result.ok
    /\ lastOp' = Some([op |-> "resolve_again", specifier |-> Unwrap(lastOp).result.val,
                       referrer |-> Unwrap(lastOp).referrer,
                       result |-> resolve(config, fs, Unwrap(lastOp).result.val, Unwrap(lastOp).referrer)])
    /\ UNCHANGED loaderVars
    /\ UNCHANGED permVars
    /\ UNCHANGED hostVars

NextResolve ==
    \/ \E e \in MapEntries : ImportMapInsert(e[1], e[2])
    \/ \E s \in Specifiers : ImportMapResolve(s)
    \/ \E q \in ResolveRequests : ResolveSpecifier(q.specifier, q.referrer)
    \/ \E s \in LoadSpecifiers : LoadSpecifier(s)
    \/ \E code \in Codes : ParseDependencies(code)
    \/ ResolveAgain

SpecResolve == InitResolve /\ [][NextResolve]_vars

---------------------------------------------------------------------------
(* Claims about the capability model, checked under SpecPerm *)

\* r, as text, begins with e: some prefix of r is e
TextBegins(r, e) == \E k \in 0..Len(r) : SubSeq(r, 1, k) = e

\* C1: a freshly constructed (default) Permissions fails check for every
\* resource in each of the five categories, and Permissions::allow_all()
\* makes check succeed for every resource in each of the five categories.
C1_DefaultDeniesAllowAllGrants ==
    /\ origin = "default" =>
          \A cat \in Categories, r \in Resources :
              /\ ~check(perms, cat, r).ok
              /\ check(perms, cat, r).err = "Denied"
    /\ origin = "allow_all" =>
          \A cat \in Categories, r \in Resources : check(perms, cat, r).ok
    /\ IsSome(lastCheck) =>
          /\ Unwrap(lastCheck).origin = "default" => ~Unwrap(lastCheck).result.ok
          /\ Unwrap(lastCheck).origin = "allow_all" => Unwrap(lastCheck).result.ok

\* a check has been made on a Permissions built by allow_all(), and succeeded
C1_Witness ==
    /\ IsSome(lastCheck)
    /\ Unwrap(lastCheck).origin = "allow_all"
    /\ Unwrap(lastCheck).resource = "/etc/passwd"
    /\ Unwrap(lastCheck).result.ok

\* C2: in state GrantedPartial(allowlist), check(r) succeeds if and only if r
\* equals an allowlist entry or r, as text, begins with one; with allowlist
\* {"/tmp"} it succeeds for "/tmp", "/tmp/file.txt" and "/tmpfoo" and fails
\* with Denied for "/etc/passwd".
C2_PartialIsTextualPrefix ==
    /\ \A cat \in Categories :
          perms[cat].kind = "GrantedPartial" =>
              \A r \in Resources :
                  /\ check(perms, cat, r).ok <=>
                        \E e \in perms[cat].paths : r = e \/ TextBegins(r, e)
                  /\ ~check(perms, cat, r).ok => check(perms, cat, r).err = "Denied"
    /\ \A cat \in Categories :
          perms[cat] = GrantedPartial({"/tmp"}) =>
              /\ check(perms, cat, "/tmp").ok
              /\ check(perms, cat, "/tmp/file.txt").ok
              /\ check(perms, cat, "/tmpfoo").ok
              /\ check(perms, cat, "/etc/passwd") = PermDenied(DeniedMessage(cat, "/etc/passwd"))
    /\ IsSome(lastCheck) /\ Unwrap(lastCheck).state = GrantedPartial({"/tmp"}) =>
          Unwrap(lastCheck).result.ok <=>
              Unwrap(lastCheck).resource \in {"/tmp", "/tmp/file.txt", "/tmpfoo"}

\* "/tmpfoo" has been checked against the allowlist {"/tmp"}, and passed
C2_Witness ==
    /\ IsSome(lastCheck)
    /\ Unwrap(lastCheck).state = GrantedPartial({"/tmp"})
    /\ Unwrap(lastCheck).resource = "/tmpfoo"
    /\ Unwrap(lastCheck).result.ok

\* C10: a category's transitions only widen access: a resource whose check
\* succeeded before a grant_all / grant_subset operation still succeeds
\* after it.
C10_GrantsOnlyWiden ==
    [][\A cat \in Categories, r \in Resources :
          check(perms, cat, r).ok => check(perms', cat, r).ok]_vars

---------------------------------------------------------------------------
(* Claims about the loader, checked under Spec *)

InLoadingSet(s) == \E i \in DOMAIN loading : loading[i] = s

ResolvedOf(c) == Unwrap(calls[c].resolved)

ResultOf(c) == Unwrap(calls[c].result)

Failed(c) == Returned(c) /\ ~ResultOf(c).ok

\* a canonical specifier that ModuleLoader::load reads from the local file system
IsLocal(s) == ~StartsWith(s, "http")

\* the read capability of the loader's Permissions does not cover path p
ReadDenied(p) ==
    ~(\/ perms.read.kind = "Granted"
      \/ perms.read.kind = "GrantedPartial" /\ \E e \in perms.read.paths : TextBegins(p, e))

C4_CircularWithoutResolution ==
    [][\A c \in Calls :
          /\ calls[c].pc = "check"
          /\ InLoadingSet(calls[c].specifier)
          /\ calls'[c].pc \notin {"check", "cancelled"}
          => /\ calls'[c].pc = "done"
             /\ calls'[c].result = Some(Err("CircularDependency", calls[c].specifier))
             /\ calls'[c].resolved = None
             /\ ~calls'[c].pushed
             /\ loading' = loading /\ cache' = cache]_vars

\* a call found its own specifier in the Loading Set, put there by another
\* call that is still in flight, and returned CircularDependency
C4_Witness ==
    \E c \in Calls, d \in Calls :
        /\ c # d /\ Returned(c) /\ InFlight(d) /\ calls[d].pushed
        /\ ResultOf(c) = Err("CircularDependency", calls[c].specifier)
        /\ calls[d].resolved = Some(calls[c].specifier)
        /\ calls[c].resolved = None

\* C5: load_module removes the resolved specifier from the Loading Set on
\* every exit path, including failure: once every call made has returned, no
\* specifier a call inserted is still in the Loading Set.
C5_RemovedOnEveryExit ==
    (\A d \in Calls : calls[d].pc \in {"idle", "done"}) =>
        \A c \in Calls : Returned(c) /\ calls[c].pushed => ~InLoadingSet(ResolvedOf(c))

\* C6: cache entries are populated only on full success: a call that returned
\* an error inserted nothing, and every cache entry is the complete module
\* built by the load_module call that inserted it, which did not return an
\* error (it returns Ok once it returns).
C6_CacheOnlyOnSuccess ==
    /\ \A c \in Calls : Failed(c) => ~calls[c].inserted
    /\ DOMAIN cacheBy = DOMAIN cache
    /\ \A s \in DOMAIN cache :
          LET c == cacheBy[s]
          IN  /\ calls[c].api = "load_module" /\ calls[c].inserted
              /\ calls[c].pc \in {"retain", "done", "cancelled"}
              /\ ~Failed(c)
              /\ Returned(c) => ResultOf(c) = Ok(cache[s])
              /\ calls[c].resolved = Some(s)
              /\ cache[s] = Unwrap(calls[c].module)
              /\ cache[s].specifier = s
              /\ cache[s].source = Unwrap(calls[c].source)
              /\ cache[s].dependencies = parse_dependencies(cache[s].source)

\* one call has failed in source acquisition and another has cached a module
C6_Witness ==
    \E c \in Calls, d \in Calls :
        /\ Failed(c) /\ calls[c].acquisitions = 1 /\ calls[c].pushed
        /\ Returned(d) /\ ResultOf(d).ok /\ calls[d].inserted
        /\ ResolvedOf(d) \in DOMAIN cache

\* C7: after a load_module call has failed during source acquisition, a retry
\* with the same specifier on the same loader, made while no other call is in
\* flight, takes the normal cache-miss path and is not rejected with
\* CircularDependency.
C7_RetryIsNotCircular ==
    \A c \in Calls :
        Returned(c) /\ calls[c].retry /\ ~calls[c].live =>
            /\ ResultOf(c).ok \/ ResultOf(c).kind # "CircularDependency"
            /\ calls[c].pushed
            /\ calls[c].acquisitions = 1

\* C8: if a caller abandons a load_module call after its Loading Set insert,
\* the entry is still removed: once no load of the specifier is in flight
\* (every other call that inserted it has returned Ok, so has removed it), it
\* is not in the Loading Set.
C8_CancelledLoadIsRemoved ==
    \A c \in Calls :
        /\ calls[c].pc = "cancelled" /\ calls[c].pushed
        /\ \A d \in Calls \ {c} :
              calls[d].pushed /\ calls[d].resolved = calls[c].resolved =>
                  Returned(d) /\ ResultOf(d).ok
        => ~InLoadingSet(ResolvedOf(c))

\* the canonical specifier of a load_module call, resolved or not
CanonicalOf(c) == resolve(config, fs, calls[c].specifier, calls[c].referrer)

\* C9: two concurrent first-time load_module calls for the same specifier,
\* caching enabled, readable source: once both have returned, the cache holds
\* exactly one entry, for the canonical specifier, equal to the module built
\* by the call that inserted last, and the Loading Set does not contain the
\* specifier.
C9_RaceKeepsState ==
    \A c \in Calls, d \in Calls, p \in DOMAIN fs :
        /\ c # d /\ config.cache_enabled
        /\ calls[c].api = "load_module" /\ calls[d].api = "load_module"
        /\ CanonicalOf(c) = Ok(p) /\ CanonicalOf(d) = Ok(p)
        /\ ~ReadDenied(p)
        /\ \A e \in Calls \ {c, d} : calls[e].pc = "idle"
        /\ Returned(c) /\ Returned(d)
        => /\ DOMAIN cache = {p}
           /\ cacheBy[p] \in {c, d}
           /\ cache[p] = Unwrap(calls[cacheBy[p]].module)
           /\ cache[p].specifier = p
           /\ cache[p].source.specifier = p
           /\ ~InLoadingSet(p)
           /\ loading = << >>

\* both calls missed the cache, both read the file (which changed in between),
\* both inserted, and both have returned
C9_Witness ==
    \E c \in Calls, d \in Calls :
        /\ c # d /\ Returned(c) /\ Returned(d)
        /\ calls[c].inserted /\ calls[d].inserted
        /\ calls[c].acquisitions = 1 /\ calls[d].acquisitions = 1
        /\ calls[c].resolved = calls[d].resolved
        /\ calls[c].module # calls[d].module
        /\ cacheBy[ResolvedOf(c)] = d

---------------------------------------------------------------------------
(* Claims about the resolver, the import map and the loader's functions,   *)
(* checked under SpecResolve                                               *)

\* the last function applied was op
Applied(op) == IsSome(lastOp) /\ Unwrap(lastOp).op = op

LastOp == Unwrap(lastOp)

\* s begins with http:// or https://
IsUrl(s) == TextBegins(s, "https://") \/ TextBegins(s, "http://")

\* the entries of the configured import map whose prefix s begins with
PrefixHits(s) == {i \in 1..Len(EntriesOf(config)) : TextBegins(s, EntriesOf(config)[i].prefix)}

\* the error of a result is the ModuleError variant kind
FailedWith(result, kind) == ~result.ok /\ result.kind = kind

\* C11: for a specifier beginning with http:// or https:// that no import-map
\* prefix matches, resolve fails with PermissionDenied when remote resolution
\* is disabled in the configuration, and returns the specifier unchanged when
\* it is enabled, whatever the state of the network capability.
C11_RemoteResolveGatedByConfig ==
    Applied("resolve") /\ IsUrl(LastOp.specifier) /\ PrefixHits(LastOp.specifier) = {}
        => IF config.allow_remote
           THEN LastOp.result.ok /\ LastOp.result.val = LastOp.specifier
           ELSE FailedWith(LastOp.result, "PermissionDenied")

\* a URL was resolved to itself by a loader whose network capability is Denied
C11_Witness ==
    /\ Applied("resolve") /\ LastOp.specifier = "https://example.com/module.js"
    /\ PrefixHits(LastOp.specifier) = {}
    /\ config.allow_remote /\ perms.net = Denied
    /\ LastOp.result.ok /\ LastOp.result.val = "https://example.com/module.js"

---------------------------------------------------------------------------
(* Claims about load and load_module calls, checked under Spec *)

\* the network capability of the loader's Permissions covers host
NetGranted(host) ==
    \/ perms.net.kind = "Granted"
    \/ perms.net.kind = "GrantedPartial" /\ \E e \in perms.net.paths : TextBegins(host, e)

\* C12: load of a URL specifier is permission-gated twice: it fails with
\* PermissionDenied when remote loading is disabled by the configuration, and
\* otherwise it is rejected with PermissionDenied exactly when the network
\* capability does not cover the URL's hostname (with net in
\* GrantedPartial({"example.com"}), load("https://example.com/m.js") is not
\* rejected with PermissionDenied).
C12_UrlLoadGatedTwice ==
    \A c \in Calls :
        Returned(c) /\ calls[c].api = "load" /\ IsUrl(calls[c].specifier)
        => IF ~config.allow_remote
           THEN FailedWith(ResultOf(c), "PermissionDenied")
           ELSE FailedWith(ResultOf(c), "PermissionDenied")
                    <=> ~NetGranted(Unwrap(UrlHost(calls[c].specifier)))

---------------------------------------------------------------------------
(* Claims about the resolver's strategies, checked under SpecResolve *)

\* the rewriting of s by entry i of the configured import map
Rewritten(s, i) == EntriesOf(config)[i].target \o DropChars(s, Len(EntriesOf(config)[i].prefix))

\* C13: resolve applies its strategies in fixed priority order: when an import
\* map is configured and one of its prefixes matches the specifier, resolve
\* returns the rewritten target, whatever the specifier's shape, the referrer
\* and the remote-resolution setting; only when no prefix matches does the
\* specifier's shape decide, between absolute URL, absolute path, relative
\* path and bare specifier.
C13_ImportMapFirst ==
    Applied("resolve") =>
        LET s == LastOp.specifier
            result == LastOp.result
        IN  IF PrefixHits(s) # {}
            THEN result.ok /\ \E i \in PrefixHits(s) : result.val = Rewritten(s, i)
            ELSE IF IsUrl(s)
            THEN IF config.allow_remote
                 THEN result.ok /\ result.val = s
                 ELSE FailedWith(result, "PermissionDenied")
            ELSE IF TextBegins(s, "/") THEN result.ok /\ result.val = s
            ELSE IF TextBegins(s, "./") \/ TextBegins(s, "../")
            THEN result.ok /\ result.val = resolve_relative(config, s, LastOp.referrer)
            ELSE result = resolve_bare_specifier(config, fs, s)

\* a URL specifier was rewritten by the import map of a loader with remote
\* resolution disabled, and a relative one in spite of its referrer
C13_Witness ==
    /\ Applied("resolve") /\ ~config.allow_remote
    /\ Len(EntriesOf(config)) = 2
    /\ \/ /\ LastOp.specifier = "https://example.com/module.js"
          /\ LastOp.result = Ok("/vendor/module.js")
       \/ /\ LastOp.specifier = "./utils.js" /\ LastOp.referrer = Some("/home/user/main.js")
          /\ LastOp.result = Ok("/mapped/utils.js")

\* C14: after any sequence of ImportMap.insert calls in any order, resolve(s)
\* returns target + s[len(prefix)..] for the longest prefix among the entries
\* whose prefix s begins with, and no match when s begins with no entry's
\* prefix; with entries {"a/": "X", "a/b/": "Y"}, resolve("a/b/c") = "Yc".
C14_LongestPrefixWins ==
    Applied("import_map_resolve") =>
        LET s == LastOp.specifier
            es == EntriesOf(config)
            hits == PrefixHits(s)
        IN  /\ IF hits = {}
               THEN LastOp.result = None
               ELSE \E i \in hits :
                        /\ \A j \in hits : Len(es[j].prefix) <= Len(es[i].prefix)
                        /\ LastOp.result = Some(Rewritten(s, i))
            /\ {<<es[i].prefix, es[i].target>> : i \in 1..Len(es)} = {<<"a/", "X">>, <<"a/b/", "Y">>}
                   /\ s = "a/b/c"
               => LastOp.result = Some("Yc")

\* both entries of the example were inserted and "a/b/c" was resolved
C14_Witness ==
    /\ Applied("import_map_resolve") /\ LastOp.specifier = "a/b/c"
    /\ Len(EntriesOf(config)) = 2
    /\ \E i, j \in 1..2 : /\ EntriesOf(config)[i].prefix = "a/"
                          /\ EntriesOf(config)[j].prefix = "a/b/"
    /\ LastOp.result = Some("Yc")

\* the directory a local referrer's module lies in
ReferrerDir(r) == IF IsSome(Parent(r)) THEN Unwrap(Parent(r)) ELSE "."

\* C15: when no import-map prefix matches, resolve of a specifier with a
\* leading path separator returns it unchanged; resolve of a "./" or "../"
\* specifier with a local-path referrer returns the normalized join of the
\* referrer's parent directory and the specifier ("./utils.js" from
\* "/home/user/main.js" gives "/home/user/utils.js", "../shared/lib.js" gives
\* "/home/shared/lib.js"); with no referrer it returns the normalized join of
\* the loader's base directory and the specifier.
C15_AbsoluteAndRelativePaths ==
    Applied("resolve") /\ PrefixHits(LastOp.specifier) = {} =>
        LET s == LastOp.specifier
            r == LastOp.referrer
            result == LastOp.result
            relative == TextBegins(s, "./") \/ TextBegins(s, "../")
        IN  /\ TextBegins(s, "/") => result.ok /\ result.val = s
            /\ relative /\ IsSome(r) /\ ~IsUrl(Unwrap(r))
                   => result.ok /\ result.val = normalize_path(PathJoin(ReferrerDir(Unwrap(r)), s))
            /\ relative /\ ~IsSome(r)
                   => result.ok /\ result.val = normalize_path(PathJoin(config.base_dir, s))
            /\ r = Some("/home/user/main.js") /\ s = "./utils.js"
                   => result.ok /\ result.val = "/home/user/utils.js"
            /\ r = Some("/home/user/main.js") /\ s = "../shared/lib.js"
                   => result.ok /\ result.val = "/home/shared/lib.js"
            /\ r = None /\ config.base_dir = "/proj/sub" /\ s = "./utils.js"
                   => result.ok /\ result.val = "/proj/sub/utils.js"
            /\ r = None /\ config.base_dir = "/proj/sub" /\ s = "../shared/lib.js"
                   => result.ok /\ result.val = "/proj/shared/lib.js"
            /\ r = None /\ config.base_dir = "proj" /\ s = "../shared/lib.js"
                   => result.ok /\ result.val = "shared/lib.js"

RECURSIVE LastSlash(_, _)
\* the position of the last '/' among the first i characters of s, 0 if none
LastSlash(s, i) == IF i = 0 THEN 0 ELSE IF SubSeq(s, i, i) = "/" THEN i ELSE LastSlash(s, i - 1)

\* the URL without its last segment
WithoutLastSegment(url) == SubSeq(url, 1, LastSlash(url, Len(url)) - 1)

\* C16: resolve of a "./" relative specifier whose referrer is a URL drops the
\* last segment of the referrer and appends the relative tail, keeping the
\* referrer's scheme, host and remaining path segments in their original
\* order: resolve("./utils.js", referrer = "https://example.com/a/main.js") =
\* "https://example.com/a/utils.js".
C16_UrlReferrerKeepsOrder ==
    /\ Applied("resolve") /\ PrefixHits(LastOp.specifier) = {}
    /\ TextBegins(LastOp.specifier, "./")
    /\ IsSome(LastOp.referrer) /\ IsUrl(Unwrap(LastOp.referrer))
    => /\ LastOp.result.ok
       /\ LastOp.result.val = WithoutLastSegment(Unwrap(LastOp.referrer)) \o "/" \o DropChars(LastOp.specifier, 2)
       /\ LastOp.specifier = "./utils.js" /\ LastOp.referrer = Some("https://example.com/a/main.js")
              => LastOp.result.val = "https://example.com/a/utils.js"

RECURSIVE Ancestors(_)
\* dir and the directories above it, nearest first
Ancestors(dir) ==
    <<dir>> \o (IF IsSome(Parent(dir)) THEN Ancestors(Unwrap(Parent(dir))) ELSE << >>)

\* the probe list as the contract states it
ContractProbes == <<".js", ".mjs", ".ts", "/index.js", "/index.mjs">>

\* the candidates of one ancestor, in probe order: the five suffixes, then the
\* path package.json's main field names
CandidatesAt(dir, name) ==
    LET package == PathJoin(PathJoin(dir, "node_modules"), name)
        manifest == PathJoin(package, "package.json")
    IN  [i \in 1..Len(ContractProbes) |-> package \o ContractProbes[i]]
            \o (IF manifest \in DOMAIN fs /\ IsSome(fs[manifest].main)
                THEN <<PathJoin(package, Unwrap(fs[manifest].main))>>
                ELSE << >>)

RECURSIVE CandidatesOver(_, _)
CandidatesOver(dirs, name) ==
    IF Len(dirs) = 0 THEN << >> ELSE CandidatesAt(dirs[1], name) \o CandidatesOver(Tail(dirs), name)

\* s has none of the markers of a URL, an absolute or a relative path
IsBare(s) == ~IsUrl(s) /\ ~TextBegins(s, "/") /\ ~TextBegins(s, "./") /\ ~TextBegins(s, "../")

\* C17: for a bare specifier, resolve walks from the base directory upward one
\* directory at a time; at each ancestor it probes <ancestor>/node_modules/<name>
\* with the suffixes .js, .mjs, .ts, /index.js, /index.mjs in that order and
\* then the path named by package.json's main field; it returns the first
\* existing candidate (nearest ancestor first, then probe order) and fails
\* with NotFound once the ancestor with no parent has been probed in vain.
C17_BareSpecifierWalk ==
    Applied("resolve") /\ PrefixHits(LastOp.specifier) = {} /\ IsBare(LastOp.specifier) =>
        LET candidates == CandidatesOver(Ancestors(config.base_dir), LastOp.specifier)
            existing == {i \in 1..Len(candidates) : Exists(fs, candidates[i])}
        IN  IF existing = {}
            THEN FailedWith(LastOp.result, "NotFound")
            ELSE /\ LastOp.result.ok
                 /\ \E i \in existing : /\ \A j \in existing : i <= j
                                        /\ LastOp.result.val = candidates[i]

\* nothing in the base directory's node_modules; one directory up lib.mjs and
\* lib.ts exist and lib.js does not; lib.js exists at the root
C17_Witness ==
    /\ Applied("resolve") /\ LastOp.specifier = "lib" /\ PrefixHits("lib") = {}
    /\ config.base_dir = "/proj/sub"
    /\ "/proj/node_modules/lib.ts" \in DOMAIN fs /\ "/node_modules/lib.js" \in DOMAIN fs
    /\ LastOp.result = Ok("/proj/node_modules/lib.mjs")

---------------------------------------------------------------------------
(* The end-to-end example, checked under Spec *)

\* /proj/a.js holds the text import {x} from './b.js'; (and has held no other
\* text), /proj/b.js exists, the read capability covers /proj/a.js
ExampleProject ==
    /\ config.base_dir = "/proj"
    /\ "/proj/a.js" \in DOMAIN fs /\ fs["/proj/a.js"].code = <<Stmt("import_from", "./b.js")>>
    /\ nWrites = 0
    /\ "/proj/b.js" \in DOMAIN fs
    /\ ~ReadDenied("/proj/a.js")

\* call c is load_module(specifier, referrer = None) and has returned
ReturnedFrom(c, specifier) ==
    /\ Returned(c) /\ calls[c].api = "load_module"
    /\ calls[c].specifier = specifier /\ calls[c].referrer = None

\* the call returned the module of /proj/a.js with the single dependency "./b.js"
LoadedExample(c) ==
    /\ ResultOf(c).ok
    /\ ResultOf(c).val.specifier = "/proj/a.js"
    /\ ResultOf(c).val.dependencies = <<"./b.js">>

\* C18: with base directory /proj containing a.js with text
\* import {x} from './b.js'; and an existing b.js, and read access granted,
\* load_module("a.js", referrer = None) resolves to /proj/a.js, succeeds, and
\* its dependencies list contains exactly "./b.js".
C18_EndToEndBareName ==
    \A c \in Calls : ExampleProject /\ ReturnedFrom(c, "a.js") => LoadedExample(c)

\* C18, amended: in the same project, load_module("./a.js", referrer = None)
\* resolves to /proj/a.js, succeeds, and its dependencies list contains
\* exactly "./b.js".
C18_EndToEndRelativeName ==
    \A c \in Calls : ExampleProject /\ ReturnedFrom(c, "./a.js") => LoadedExample(c)

\* load_module("./a.js", None) read the file itself and returned its module
C18_Witness ==
    \E c \in Calls :
        /\ ExampleProject /\ ReturnedFrom(c, "./a.js")
        /\ calls[c].acquisitions = 1
        /\ LoadedExample(c)

---------------------------------------------------------------------------
(* Claims about parse_dependencies and the module type, checked under SpecResolve *)

RECURSIVE InTextOrder(_)
\* the specifiers of the import-from, import-call and export-from statements of
\* a source text, by position in the text
InTextOrder(code) ==
    IF Len(code) = 0 THEN << >>
    ELSE (IF code[1].shape \in {"import_from", "import_call", "export_from"}
          THEN <<code[1].spec>> ELSE << >>) \o InTextOrder(Tail(code))

\* C19: parse_dependencies returns the specifier of every static
\* import ... from "<spec>", dynamic import("<spec>") and
\* export ... from "<spec>" occurrence in the source, duplicates preserved,
\* ordered by position of occurrence in the source text whatever the syntactic
\* shape.
C19_DependenciesInTextOrder ==
    Applied("parse_dependencies") => LastOp.result = InTextOrder(LastOp.code)

\* name ends with the text suffix
EndsWith(name, suffix) ==
    Len(suffix) <= Len(name) /\ SubSeq(name, Len(name) - Len(suffix) + 1, Len(name)) = suffix

\* the last segment of a path
FileName(path) == SubSeq(path, LastSlash(path, Len(path)) + 1, Len(path))

\* the module type the contract derives from a file name with an extension
ContractType(name) ==
    IF EndsWith(name, ".js") \/ EndsWith(name, ".mjs") THEN "ESModule"
    ELSE IF EndsWith(name, ".cjs") THEN "CommonJS"
    ELSE IF EndsWith(name, ".json") THEN "JSON"
    ELSE IF EndsWith(name, ".ts") THEN "TypeScript"
    ELSE "Unknown"

\* C20: the ModuleSource that load returns for a local file has a module type
\* derived purely from the file's extension: .js and .mjs give ESModule, .cjs
\* gives CommonJS, .json gives JSON, .ts gives TypeScript, any other extension
\* gives Unknown (loading /proj/x.ts yields TypeScript and /proj/x.json yields
\* JSON).
C20_ModuleTypeFromExtension ==
    /\ Applied("load") /\ LastOp.result.ok
    /\ ~IsUrl(LastOp.specifier)
    /\ \E k \in 2..Len(FileName(LastOp.specifier)) : SubSeq(FileName(LastOp.specifier), k, k) = "."
    => LastOp.result.val.module_type = ContractType(FileName(LastOp.specifier))

---------------------------------------------------------------------------
(* ModuleCache used on its own: insert, get, contains and clear calls *)

CacheKeys == {"test", "/proj/a.js"}

\* the modules handed to insert: every key with two different sources
CacheModule(specifier, code) ==
    ResolvedModule(specifier, ModuleSource(specifier, code, "ESModule"), << >>)

CacheCodes == {CodeA, << >>}

\* ModuleCache::new()
InitCache ==
    /\ InitPerm

\* cache.insert(specifier, module)
CacheInsertCall(specifier, module) ==
    /\ Len(cacheLog) < MaxCacheCalls
    /\ cache' = cache_insert(cache, specifier, module)
    /\ cacheLog' = Append(cacheLog, [op |-> "insert", specifier |-> specifier,
                                     module |-> module, result |-> None])
    /\ UNCHANGED <<config, fs, nWrites, cacheBy, loading, calls>>
    /\ UNCHANGED <<permVars, lastOp, fsVars, timerVars>>

\* cache.get(specifier)
CacheGetCall(specifier) ==
    /\ Len(cacheLog) < MaxCacheCalls
    /\ cacheLog' = Append(cacheLog, [op |-> "get", specifier |-> specifier,
                                     module |-> None, result |-> cache_get(cache, specifier)])
    /\ UNCHANGED loaderVars
    /\ UNCHANGED <<permVars, lastOp, fsVars, timerVars>>

\* cache.contains(specifier)
CacheContainsCall(specifier) ==
    /\ Len(cacheLog) < MaxCacheCalls
    /\ cacheLog' = Append(cacheLog, [op |-> "contains", specifier |-> specifier,
                                     module |-> None, result |-> cache_contains(cache, specifier)])
    /\ UNCHANGED loaderVars
    /\ UNCHANGED <<permVars, lastOp, fsVars, timerVars>>

\* cache.clear()
CacheClearCall ==
    /\ Len(cacheLog) < MaxCacheCalls
    /\ cache' = cache_clear(cache)
    /\ cacheLog' = Append(cacheLog, [op |-> "clear", specifier |-> "",
                                     module |-> None, result |-> None])
    /\ UNCHANGED <<config, fs, nWrites, cacheBy, loading, calls>>
    /\ UNCHANGED <<permVars, lastOp, fsVars, timerVars>>

NextCache ==
    \/ \E s \in CacheKeys, code \in CacheCodes : CacheInsertCall(s, CacheModule(s, code))
    \/ \E s \in CacheKeys : CacheGetCall(s)
    \/ \E s \in CacheKeys : CacheContainsCall(s)
    \/ CacheClearCall

SpecCache == InitCache /\ [][NextCache]_vars

---------------------------------------------------------------------------
(* Claims about ModuleCache, checked under SpecCache *)

\* the calls before call i that decide what key s holds: its inserts, and clear
Deciding(i, s) ==
    {j \in 1..(i - 1) : \/ cacheLog[j].op = "clear"
                        \/ cacheLog[j].op = "insert" /\ cacheLog[j].specifier = s}

Latest(js) == CHOOSE j \in js : \A k \in js : k <= j

\* what the calls before call i left under key s: the module of the latest
\* insert for s, unless a clear came after it
LeftUnder(i, s) ==
    IF Deciding(i, s) = {} THEN None
    ELSE IF cacheLog[Latest(Deciding(i, s))].op = "clear" THEN None
    ELSE Some(cacheLog[Latest(Deciding(i, s))].module)

\* C21: get(S) returns the module of the latest insert(S, _) and contains(S) is
\* true as long as no clear() came after that insert; inserts for other keys
\* change nothing for S; after clear() every key is absent
C21_CacheLastWriteWins ==
    /\ \A i \in 1..Len(cacheLog) :
          /\ cacheLog[i].op = "get" => cacheLog[i].result = LeftUnder(i, cacheLog[i].specifier)
          /\ cacheLog[i].op = "contains" =>
                cacheLog[i].result = IsSome(LeftUnder(i, cacheLog[i].specifier))
    /\ \A s \in CacheKeys :
          /\ (s \in DOMAIN cache) = IsSome(LeftUnder(Len(cacheLog) + 1, s))
          /\ s \in DOMAIN cache => Some(cache[s]) = LeftUnder(Len(cacheLog) + 1, s)

\* two inserts for one key with different modules, a get that returns the
\* second, then a clear and a contains that answers false
C21_Witness ==
    /\ Len(cacheLog) = 5
    /\ cacheLog[1].op = "insert" /\ cacheLog[2].op = "insert"
    /\ cacheLog[1].specifier = cacheLog[2].specifier
    /\ cacheLog[1].module # cacheLog[2].module
    /\ cacheLog[3].op = "get" /\ cacheLog[3].specifier = cacheLog[1].specifier
    /\ cacheLog[3].result = Some(cacheLog[2].module)
    /\ cacheLog[4].op = "clear"
    /\ cacheLog[5].op = "contains" /\ cacheLog[5].specifier = cacheLog[1].specifier
    /\ cacheLog[5].result = FALSE

---------------------------------------------------------------------------
(* serde_json::from_str, as far as ImportMap::from_json uses it: JSON texts *)
(* of objects, arrays, strings without escapes, unsigned integers and the   *)
(* three literals, with blanks as the only white space                      *)

JString(s) == [kind |-> "string", v |-> s]

JNumber(digits) == [kind |-> "number", v |-> digits]

JLiteral(name) == [kind |-> name, v |-> name]

JArray(items) == [kind |-> "array", v |-> items]

\* an object's members as a list of <<key, value>> with one member per key
JObject(members) == [kind |-> "object", v |-> members]

Parsed(value, next) == [ok |-> TRUE, val |-> value, next |-> next]

Unparsed(at) == [ok |-> FALSE, val |-> JLiteral("null"), next |-> at]

\* the character at position i, "" past the end
PeekChar(text, i) == IF i >= 1 /\ i <= Len(text) THEN SubSeq(text, i, i) ELSE ""

TextAt(text, i, word) ==
    i + Len(word) - 1 <= Len(text) /\ SubSeq(text, i, i + Len(word) - 1) = word

RECURSIVE SkipBlanks(_, _)
SkipBlanks(text, i) == IF PeekChar(text, i) = " " THEN SkipBlanks(text, i + 1) ELSE i

RECURSIVE ClosingQuote(_, _)
\* the position of the next quote at or after i, 0 if there is none
ClosingQuote(text, i) ==
    IF i > Len(text) THEN 0
    ELSE IF PeekChar(text, i) = "\"" THEN i
    ELSE ClosingQuote(text, i + 1)

IsDigit(ch) == ch \in {"0", "1", "2", "3", "4", "5", "6", "7", "8", "9"}

RECURSIVE DigitsEnd(_, _)
\* the position after the digits that start at i
DigitsEnd(text, i) == IF IsDigit(PeekChar(text, i)) THEN DigitsEnd(text, i + 1) ELSE i

\* a string literal whose opening quote is at i
ParseString(text, i) ==
    LET j == ClosingQuote(text, i + 1)
    IN  IF PeekChar(text, i) = "\"" /\ j > 0
        THEN Parsed(JString(SubSeq(text, i + 1, j - 1)), j + 1)
        ELSE Unparsed(i)

\* Map::insert: a later member with the same key replaces the value in place
MemberInsert(members, key, value) ==
    IF \E k \in 1..Len(members) : members[k][1] = key
    THEN [k \in 1..Len(members) |-> IF members[k][1] = key THEN <<key, value>> ELSE members[k]]
    ELSE Append(members, <<key, value>>)

RECURSIVE ParseValue(_, _)
RECURSIVE ParseItems(_, _, _)
RECURSIVE ParseMembers(_, _, _)

\* the items of an array after its first one: i is after an item
ParseItems(text, i, items) ==
    LET j == SkipBlanks(text, i)
    IN  IF PeekChar(text, j) = "]" THEN Parsed(JArray(items), j + 1)
        ELSE IF PeekChar(text, j) = "," THEN
            LET item == ParseValue(text, SkipBlanks(text, j + 1))
            IN  IF item.ok THEN ParseItems(text, item.next, Append(items, item.val))
                ELSE Unparsed(j)
        ELSE Unparsed(j)

\* one "key": value member at i, then the rest of the object
ParseMembers(text, i, members) ==
    LET key == ParseString(text, i)
        colon == SkipBlanks(text, key.next)
        value == ParseValue(text, SkipBlanks(text, colon + 1))
        after == SkipBlanks(text, value.next)
    IN  IF ~key.ok \/ PeekChar(text, colon) # ":" THEN Unparsed(i)
        ELSE IF ~value.ok THEN Unparsed(i)
        ELSE IF PeekChar(text, after) = "}"
             THEN Parsed(JObject(MemberInsert(members, key.val.v, value.val)), after + 1)
        ELSE IF PeekChar(text, after) = ","
             THEN ParseMembers(text, SkipBlanks(text, after + 1),
                               MemberInsert(members, key.val.v, value.val))
        ELSE Unparsed(after)

\* one JSON value that starts at i
ParseValue(text, i) ==
    LET ch == PeekChar(text, i)
    IN  IF ch = "\"" THEN ParseString(text, i)
        ELSE IF IsDigit(ch) THEN
            Parsed(JNumber(SubSeq(text, i, DigitsEnd(text, i) - 1)), DigitsEnd(text, i))
        ELSE IF TextAt(text, i, "true") THEN Parsed(JLiteral("true"), i + 4)
        ELSE IF TextAt(text, i, "false") THEN Parsed(JLiteral("false"), i + 5)
        ELSE IF TextAt(text, i, "null") THEN Parsed(JLiteral("null"), i + 4)
        ELSE IF ch = "[" THEN
            LET j == SkipBlanks(text, i + 1)
                first == ParseValue(text, j)
            IN  IF PeekChar(text, j) = "]" THEN Parsed(JArray(<< >>), j + 1)
                ELSE IF first.ok THEN ParseItems(text, first.next, <<first.val>>)
                ELSE Unparsed(j)
        ELSE IF ch = "{" THEN
            LET j == SkipBlanks(text, i + 1)
            IN  IF PeekChar(text, j) = "}" THEN Parsed(JObject(<< >>), j + 1)
                ELSE ParseMembers(text, j, << >>)
        ELSE Unparsed(i)

\* serde_json::from_str::<Value>: one value, then nothing but white space
serde_json_from_str(text) ==
    LET value == ParseValue(text, SkipBlanks(text, 1))
    IN  IF value.ok /\ SkipBlanks(text, value.next) = Len(text) + 1
        THEN Ok(value.val)
        ELSE Err("ParseError", "Invalid import map JSON")

\* Value::as_object
as_object(value) == IF value.kind = "object" THEN Some(value.v) ELSE None

\* Value::as_str
as_str(value) == IF value.kind = "string" THEN Some(value.v) ELSE None

\* Map::get
object_get(members, key) ==
    IF \E k \in 1..Len(members) : members[k][1] = key
    THEN Some(members[CHOOSE k \in 1..Len(members) : members[k][1] = key][2])
    ELSE None

RECURSIVE InsertStrings(_, _, _)
\* for (key, value) in import_obj { if let Some(target) = value.as_str() { map.insert(..) } }
InsertStrings(members, i, entries) ==
    IF i > Len(members) THEN entries
    ELSE IF IsSome(as_str(members[i][2]))
         THEN InsertStrings(members, i + 1,
                            import_map_insert(entries, members[i][1], Unwrap(as_str(members[i][2]))))
    ELSE InsertStrings(members, i + 1, entries)

\* a plausible bug: an imports member that is not an object is reported as an error
from_json_strict(json) ==
    LET value == serde_json_from_str(json)
        obj == as_object(value.val)
        imports == IF IsSome(obj) THEN object_get(Unwrap(obj), "imports") ELSE None
    IN  IF ~value.ok THEN value
        ELSE IF IsSome(imports) /\ IsSome(as_object(Unwrap(imports)))
             THEN Ok(InsertStrings(Unwrap(as_object(Unwrap(imports))), 1, << >>))
        ELSE IF IsSome(imports) THEN Err("ParseError", "Invalid import map JSON")
        ELSE Ok(<< >>)

\* ImportMap::from_json: the entries of the map it returns
from_json(json) ==
    LET value == serde_json_from_str(json)
        obj == as_object(value.val)
        imports == IF IsSome(obj) THEN object_get(Unwrap(obj), "imports") ELSE None
    IN  IF ~value.ok THEN value
        ELSE IF IsSome(imports) /\ IsSome(as_object(Unwrap(imports)))
             THEN Ok(InsertStrings(Unwrap(as_object(Unwrap(imports))), 1, << >>))
        ELSE Ok(<< >>)

---------------------------------------------------------------------------
(* ImportMap::from_json and normalize_path applied to texts, one call at a time *)

\* import-map texts: each with whether it is valid JSON and, if it is, the
\* string-valued members of its top-level "imports" object
JsonCase(json, valid, imports) == [json |-> json, valid |-> valid, imports |-> imports]

JsonCases ==
    { JsonCase("{\"imports\": {\"react\": \"https://cdn.example.com/react.js\"}}", TRUE,
               {<<"react", "https://cdn.example.com/react.js">>}),
      JsonCase("{\"imports\":{\"a/\":\"X\",\"a/b/\":\"Y\"}}", TRUE, {<<"a/", "X">>, <<"a/b/", "Y">>}),
      JsonCase("{\"imports\": {\"a/\": \"X\", \"n\": 1, \"o\": {}, \"l\": [\"x\"], \"t\": true, \"z\": null}}",
               TRUE, {<<"a/", "X">>}),
      JsonCase("{\"scopes\": {}, \"imports\": {\"lib\": \"/vendor/lib.js\"}, \"x\": [1, 2]}", TRUE,
               {<<"lib", "/vendor/lib.js">>}),
      JsonCase("{\"scopes\": {\"imports\": {\"a/\": \"X\"}}}", TRUE, {}),
      JsonCase("{\"imports\": [\"a/\"]}", TRUE, {}),
      JsonCase("{\"imports\": \"a/\"}", TRUE, {}),
      JsonCase("{\"imports\": {\"a/\": \"X\", \"a/\": 1}}", TRUE, {}),
      JsonCase("{\"imports\": {}}", TRUE, {}),
      JsonCase(" {} ", TRUE, {}),
      JsonCase("[{\"imports\": {\"a/\": \"X\"}}]", TRUE, {}),
      JsonCase("\"imports\"", TRUE, {}),
      JsonCase("12", TRUE, {}),
      JsonCase("null", TRUE, {}),
      JsonCase("", FALSE, {}),
      JsonCase("{", FALSE, {}),
      JsonCase("{\"imports\": {\"a/\": \"X\",}}", FALSE, {}),
      JsonCase("{\"imports\": {\"a/\" \"X\"}}", FALSE, {}),
      JsonCase("{\"imports\": {\"a/\": \"X\"}} x", FALSE, {}),
      JsonCase("{imports: {}}", FALSE, {}),
      JsonCase("{\"imports\": {\"a/\": X}}", FALSE, {}),
      JsonCase("[1, 2", FALSE, {}) }

JsonTexts == {c.json : c \in JsonCases}

\* the segments paths are made of
PathSegments == {"a", "b", ".", "..", ""}

\* segments per path
MaxSegments == 3

SegmentLists == UNION {[1..n -> PathSegments] : n \in 0..MaxSegments}

\* every relative and every absolute path of up to MaxSegments segments
PathInputs == {Join(segs, "/") : segs \in SegmentLists} \cup {"/" \o Join(segs, "/") : segs \in SegmentLists}

InitPure ==
    /\ InitPerm

\* ImportMap::from_json(json, base_url)
FromJson(json) ==
    /\ lastOp' = Some([op |-> "from_json", json |-> json, result |-> from_json(json)])
    /\ UNCHANGED <<permVars, loaderVars, hostVars>>

\* normalize_path(path)
NormalizePath(path) ==
    /\ lastOp' = Some([op |-> "normalize_path", path |-> path, normalized |-> FALSE,
                       result |-> normalize_path(path)])
    /\ UNCHANGED <<permVars, loaderVars, hostVars>>

\* normalize_path applied to the path the last call returned
NormalizeAgain ==
    /\ IsSome(lastOp)
    /\ Unwrap(lastOp).op = "normalize_path"
    /\ lastOp' = Some([op |-> "normalize_path", path |-> Unwrap(lastOp).result, normalized |-> TRUE,
                       result |-> normalize_path(Unwrap(lastOp).result)])
    /\ UNCHANGED <<permVars, loaderVars, hostVars>>

NextPure ==
    \/ \E json \in JsonTexts : FromJson(json)
    \/ \E path \in PathInputs : NormalizePath(path)
    \/ NormalizeAgain

SpecPure == InitPure /\ [][NextPure]_vars

---------------------------------------------------------------------------
(* Claims about from_json and normalize_path, checked under SpecPure *)

CaseOf(json) == CHOOSE c \in JsonCases : c.json = json

EntrySet(entries) == {<<entries[i].prefix, entries[i].target>> : i \in 1..Len(entries)}

\* C22: from_json returns ParseError exactly for the texts that are not valid
\* JSON, and for a valid text Ok with exactly the string-valued members of the
\* top-level imports object (none when there is no such object)
C22_FromJsonTotalOnValidJson ==
    Applied("from_json") =>
        /\ LastOp.result.ok = CaseOf(LastOp.json).valid
        /\ ~LastOp.result.ok => LastOp.result.kind = "ParseError"
        /\ LastOp.result.ok =>
              /\ EntrySet(LastOp.result.val) = CaseOf(LastOp.json).imports
              /\ Len(LastOp.result.val) = Cardinality(CaseOf(LastOp.json).imports)

\* a valid text with a string target and five targets that are not strings
C22_Witness ==
    /\ Applied("from_json")
    /\ LastOp.json = "{\"imports\": {\"a/\": \"X\", \"n\": 1, \"o\": {}, \"l\": [\"x\"], \"t\": true, \"z\": null}}"
    /\ LastOp.result = Ok(<<[prefix |-> "a/", target |-> "X"]>>)

RECURSIVE ClaimStack(_, _, _)
\* the stack machine over the names of a path: '..' pops (nothing when the
\* stack is empty), '.' and empty segments are dropped, the rest is pushed
ClaimStack(segs, i, stack) ==
    IF i > Len(segs) THEN stack
    ELSE IF segs[i] = ".." THEN
        ClaimStack(segs, i + 1, IF stack = << >> THEN stack ELSE SubSeq(stack, 1, Len(stack) - 1))
    ELSE IF segs[i] \in {".", ""} THEN ClaimStack(segs, i + 1, stack)
    ELSE ClaimStack(segs, i + 1, Append(stack, segs[i]))

IsAbsolute(path) == Len(path) > 0 /\ SubSeq(path, 1, 1) = "/"

\* C26: normalize_path returns what the stack machine leaves, joined by '/';
\* an absolute path stays absolute, no '.' or '..' is left, and a normalized
\* path is a fixed point
C26_NormalizeIsStackMachine ==
    Applied("normalize_path") =>
        /\ LastOp.result = (IF IsAbsolute(LastOp.path) THEN "/" ELSE "")
                              \o Join(ClaimStack(Split(LastOp.path), 1, << >>), "/")
        /\ IsAbsolute(LastOp.path) => IsAbsolute(LastOp.result)
        /\ \A k \in 1..Len(Split(LastOp.result)) : Split(LastOp.result)[k] \notin {".", ".."}
        /\ LastOp.normalized => LastOp.result = LastOp.path

\* an absolute path with a '..' that finds only the root, and a '.'
C26_Witness ==
    /\ Applied("normalize_path")
    /\ LastOp.path = "/../a/."
    /\ LastOp.result = "/a"

---------------------------------------------------------------------------
(* std::fs and std::env on the modelled disk *)

IsFile(d, path) == path \in DOMAIN d.files

IsDir(d, path) == path \in d.dirs

\* Path::exists
PathExists(d, path) == IsFile(d, path) \/ IsDir(d, path)

\* path is dir or lies under it
Under(path, dir) ==
    \/ path = dir
    \/ StartsWith(path, IF dir = "/" THEN "/" ELSE dir \o "/")

\* the directory an entry is made in exists
ParentExists(d, path) ==
    IF IsSome(Parent(path)) THEN Unwrap(Parent(path)) = "" \/ IsDir(d, Unwrap(Parent(path))) ELSE FALSE

IoError(kind) == Err("Io", kind)

\* what an operation returns, the disk it leaves and the paths its std calls reached
Outcome(result, d, reached) == [result |-> result, disk |-> d, reached |-> reached]

\* the `?` on a failed permission check: FsError::Permission, nothing reached
PermissionError(checked, d) == Outcome(Err("Permission", checked.msg), d, {})

RECURSIVE AncestorsAndSelf(_)
AncestorsAndSelf(path) ==
    {path} \cup (IF IsSome(Parent(path)) /\ Unwrap(Parent(path)) # ""
                 THEN AncestorsAndSelf(Unwrap(Parent(path))) ELSE {})

\* fs::create_dir_all
fs_create_dir_all(d, path) ==
    IF \E a \in AncestorsAndSelf(path) : IsFile(d, a)
    THEN Outcome(IoError("NotADirectory"), d, {path})
    ELSE Outcome(Ok("unit"), [d EXCEPT !.dirs = @ \cup AncestorsAndSelf(path)], {path})

\* fs::create_dir
fs_create_dir(d, path) ==
    IF PathExists(d, path) THEN Outcome(IoError("AlreadyExists"), d, {path})
    ELSE IF ~ParentExists(d, path) THEN Outcome(IoError("NotFound"), d, {path})
    ELSE Outcome(Ok("unit"), [d EXCEPT !.dirs = @ \cup {path}], {path})

\* fs::read_to_string, fs::read
fs_read(d, path) ==
    IF IsFile(d, path) THEN Outcome(Ok(d.files[path]), d, {path})
    ELSE IF IsDir(d, path) THEN Outcome(IoError("IsADirectory"), d, {path})
    ELSE Outcome(IoError("NotFound"), d, {path})

PutFile(d, path, data) ==
    [d EXCEPT !.files = [f \in DOMAIN d.files \cup {path} |-> IF f = path THEN data ELSE d.files[f]]]

\* fs::write: the file is created or truncated
fs_write(d, path, data) ==
    IF IsDir(d, path) THEN Outcome(IoError("IsADirectory"), d, {path})
    ELSE IF ~ParentExists(d, path) THEN Outcome(IoError("NotFound"), d, {path})
    ELSE Outcome(Ok("unit"), PutFile(d, path, data), {path})

\* OpenOptions::new().create(true).append(true).open, then write_all
fs_append(d, path, data) ==
    IF IsDir(d, path) THEN Outcome(IoError("IsADirectory"), d, {path})
    ELSE IF ~ParentExists(d, path) THEN Outcome(IoError("NotFound"), d, {path})
    ELSE Outcome(Ok("unit"),
                 PutFile(d, path, (IF IsFile(d, path) THEN d.files[path] ELSE "") \o data), {path})

\* the entries below a directory, the directory itself excluded
Below(d, dir) == {q \in (DOMAIN d.files) \cup d.dirs : q # dir /\ Under(q, dir)}

RemoveAll(d, gone) ==
    [d EXCEPT !.files = [f \in (DOMAIN d.files) \ gone |-> d.files[f]], !.dirs = @ \ gone]

\* fs::remove_file
fs_remove_file(d, path) ==
    IF IsFile(d, path) THEN Outcome(Ok("unit"), RemoveAll(d, {path}), {path})
    ELSE IF IsDir(d, path) THEN Outcome(IoError("IsADirectory"), d, {path})
    ELSE Outcome(IoError("NotFound"), d, {path})

\* fs::remove_dir
fs_remove_dir(d, path) ==
    IF Below(d, path) # {} THEN Outcome(IoError("DirectoryNotEmpty"), d, {path})
    ELSE Outcome(Ok("unit"), RemoveAll(d, {path}), {path})

\* fs::remove_dir_all
fs_remove_dir_all(d, path) ==
    Outcome(Ok("unit"), RemoveAll(d, Below(d, path) \cup {path}), {path})

Rebase(q, from, to) == to \o DropChars(q, Len(from))

\* the entries of d with those at or below `from` moved to `to`
Moved(d, from, to) ==
    LET gone == Below(d, from) \cup {from}
        kept == RemoveAll(d, gone \cup (IF IsFile(d, to) THEN {to} ELSE {}))
        files == {q \in gone : IsFile(d, q)}
        dirs == {q \in gone : IsDir(d, q)}
    IN  [kept EXCEPT
            !.files = [f \in (DOMAIN kept.files) \cup {Rebase(q, from, to) : q \in files} |->
                          IF \E q \in files : Rebase(q, from, to) = f
                          THEN d.files[CHOOSE q \in files : Rebase(q, from, to) = f]
                          ELSE kept.files[f]],
            !.dirs = @ \cup {Rebase(q, from, to) : q \in dirs}]

\* fs::rename
fs_rename(d, from, to) ==
    IF ~PathExists(d, from) THEN Outcome(IoError("NotFound"), d, {from, to})
    ELSE IF ~ParentExists(d, to) THEN Outcome(IoError("NotFound"), d, {from, to})
    ELSE IF from = to THEN Outcome(Ok("unit"), d, {from, to})
    ELSE IF IsFile(d, from) /\ IsDir(d, to) THEN Outcome(IoError("IsADirectory"), d, {from, to})
    ELSE IF IsDir(d, from) /\ IsFile(d, to) THEN Outcome(IoError("NotADirectory"), d, {from, to})
    ELSE IF IsDir(d, from) /\ (Under(to, from) \/ Below(d, to) # {})
         THEN Outcome(IoError("InvalidInput"), d, {from, to})
    ELSE Outcome(Ok("unit"), Moved(d, from, to), {from, to})

\* fs::copy: the length of the content is returned
fs_copy(d, from, to) ==
    IF ~IsFile(d, from) THEN Outcome(IoError(IF IsDir(d, from) THEN "InvalidInput" ELSE "NotFound"), d, {from})
    ELSE IF IsDir(d, to) THEN Outcome(IoError("IsADirectory"), d, {from, to})
    ELSE IF ~ParentExists(d, to) THEN Outcome(IoError("NotFound"), d, {from, to})
    ELSE Outcome(Ok(Len(d.files[from])), PutFile(d, to, d.files[from]), {from, to})

\* fs::metadata
fs_metadata(d, path) ==
    IF ~PathExists(d, path) THEN Outcome(IoError("NotFound"), d, {path})
    ELSE Outcome(Ok([is_file |-> IsFile(d, path), is_directory |-> IsDir(d, path),
                     size |-> IF IsFile(d, path) THEN Len(d.files[path]) ELSE 0]), d, {path})

\* fs::read_dir: the paths directly in the directory
fs_read_dir(d, path) ==
    IF IsFile(d, path) THEN Outcome(IoError("NotADirectory"), d, {path})
    ELSE IF ~IsDir(d, path) THEN Outcome(IoError("NotFound"), d, {path})
    ELSE Outcome(Ok({q \in Below(d, path) : Parent(q) = Some(path)}), d, {path})

\* std::env::current_dir
env_current_dir(d) == Outcome(Ok(d.cwd), d, {d.cwd})

\* std::env::set_current_dir
env_set_current_dir(d, path) ==
    IF IsFile(d, path) THEN Outcome(IoError("NotADirectory"), d, {path})
    ELSE IF ~IsDir(d, path) THEN Outcome(IoError("NotFound"), d, {path})
    ELSE Outcome(Ok("unit"), [d EXCEPT !.cwd = path], {path})

\* fs::canonicalize (no symbolic links on the modelled disk)
fs_canonicalize(d, path) ==
    LET absolute == normalize_path(PathJoin(d.cwd, path))
    IN  IF PathExists(d, absolute) THEN Outcome(Ok(absolute), d, {path})
        ELSE Outcome(IoError("NotFound"), d, {path})

---------------------------------------------------------------------------
(* src/ops/fs.rs *)

\* read_text_file and read_file
read_text_file(d, path, p) ==
    IF ~check_read(p, path).ok THEN PermissionError(check_read(p, path), d)
    ELSE fs_read(d, path)

\* write_text_file and write_file
write_text_file(d, path, data, p) ==
    IF ~check_write(p, path).ok THEN PermissionError(check_write(p, path), d)
    ELSE LET parent == Parent(path)
             made == IF IsSome(parent) /\ Unwrap(parent) # "" /\ ~PathExists(d, Unwrap(parent))
                     THEN fs_create_dir_all(d, Unwrap(parent))
                     ELSE Outcome(Ok("unit"), d, IF IsSome(parent) THEN {Unwrap(parent)} ELSE {})
             written == fs_write(made.disk, path, data)
         IN  IF ~made.result.ok THEN made
             ELSE Outcome(written.result, written.disk, made.reached \cup written.reached)

\* append_text_file and append_file
append_text_file(d, path, data, p) ==
    IF ~check_write(p, path).ok THEN PermissionError(check_write(p, path), d)
    ELSE fs_append(d, path, data)

\* exists
exists(d, path, p) ==
    IF ~check_read(p, path).ok THEN PermissionError(check_read(p, path), d)
    ELSE Outcome(Ok(PathExists(d, path)), d, {path})

\* metadata
metadata(d, path, p) ==
    IF ~check_read(p, path).ok THEN PermissionError(check_read(p, path), d)
    ELSE fs_metadata(d, path)

\* create_dir
create_dir(d, path, p, recursive) ==
    IF ~check_write(p, path).ok THEN PermissionError(check_write(p, path), d)
    ELSE IF recursive THEN fs_create_dir_all(d, path)
    ELSE fs_create_dir(d, path)

\* remove
remove(d, path, p, recursive) ==
    IF ~check_write(p, path).ok THEN PermissionError(check_write(p, path), d)
    ELSE IF IsDir(d, path) THEN
        (IF recursive THEN fs_remove_dir_all(d, path) ELSE fs_remove_dir(d, path))
    ELSE fs_remove_file(d, path)

\* rename
rename(d, old_path, new_path, p) ==
    IF ~check_write(p, old_path).ok THEN PermissionError(check_write(p, old_path), d)
    ELSE IF ~check_write(p, new_path).ok THEN PermissionError(check_write(p, new_path), d)
    ELSE fs_rename(d, old_path, new_path)

\* copy
copy(d, src, dest, p) ==
    IF ~check_read(p, src).ok THEN PermissionError(check_read(p, src), d)
    ELSE IF ~check_write(p, dest).ok THEN PermissionError(check_write(p, dest), d)
    ELSE fs_copy(d, src, dest)

\* read_dir
read_dir(d, path, p) ==
    IF ~check_read(p, path).ok THEN PermissionError(check_read(p, path), d)
    ELSE fs_read_dir(d, path)

\* cwd: no Permissions parameter, no check
cwd(d) == env_current_dir(d)

\* chdir
chdir(d, path, p) ==
    IF ~check_read(p, path).ok THEN PermissionError(check_read(p, path), d)
    ELSE env_set_current_dir(d, path)

\* realpath
realpath(d, path, p) ==
    IF ~check_read(p, path).ok THEN PermissionError(check_read(p, path), d)
    ELSE fs_canonicalize(d, path)

\* make_temp
make_temp(d, path, p) ==
    IF ~check_write(p, path).ok THEN PermissionError(check_write(p, path), d)
    ELSE LET temp_path == path \o ".tmp"
             renamed == fs_rename(d, path, temp_path)
         IN  IF renamed.result.ok THEN Outcome(Ok(temp_path), renamed.disk, renamed.reached)
             ELSE renamed

---------------------------------------------------------------------------
(* The ops::fs operations called one after the other with one Permissions *)

\* read everywhere, write below /tmp
ReadAllWriteTmp == grant_subset(grant_all(Default, "read"), "write", {"/tmp"})

FsPerms == {Default, allow_all, grant_all(Default, "read"), ReadAllWriteTmp}

FsPaths == {"/etc/passwd", "/tmp/a.txt", "/tmp/new/b.txt", "/tmp"}

InitFs ==
    /\ perms \in FsPerms
    /\ origin = OriginOf(perms)
    /\ nGrants = 0
    /\ lastCheck = None
    /\ lastOp = None
    /\ InitHostIdle
    /\ InitLoaderIdle

FsOpsDone == IF IsSome(lastFs) THEN Unwrap(lastFs).n ELSE 0

\* an ops::fs operation is called with the Permissions of the run: its outcome
\* becomes the disk and the last operation
FsStep(op, path, path2, outcome) ==
    /\ FsOpsDone < MaxFsOps
    /\ disk' = outcome.disk
    /\ lastFs' = Some([op |-> op, path |-> path, path2 |-> path2, result |-> outcome.result,
                       reached |-> outcome.reached, changed |-> outcome.disk # disk,
                       n |-> FsOpsDone + 1])
    /\ UNCHANGED <<permVars, loaderVars, lastOp, cacheLog, timerVars>>

NextFs ==
    \/ \E path \in FsPaths : FsStep("read_text_file", path, "", read_text_file(disk, path, perms))
    \/ \E path \in FsPaths : FsStep("write_text_file", path, "", write_text_file(disk, path, "x", perms))
    \/ \E path \in FsPaths : FsStep("append_text_file", path, "", append_text_file(disk, path, "x", perms))
    \/ \E path \in FsPaths : FsStep("exists", path, "", exists(disk, path, perms))
    \/ \E path \in FsPaths : FsStep("metadata", path, "", metadata(disk, path, perms))
    \/ \E path \in FsPaths, recursive \in BOOLEAN :
          FsStep("create_dir", path, "", create_dir(disk, path, perms, recursive))
    \/ \E path \in FsPaths, recursive \in BOOLEAN :
          FsStep("remove", path, "", remove(disk, path, perms, recursive))
    \/ \E old_path \in FsPaths, new_path \in FsPaths :
          FsStep("rename", old_path, new_path, rename(disk, old_path, new_path, perms))
    \/ \E src \in FsPaths, dest \in FsPaths : FsStep("copy", src, dest, copy(disk, src, dest, perms))
    \/ \E path \in FsPaths : FsStep("read_dir", path, "", read_dir(disk, path, perms))
    \/ FsStep("cwd", "", "", cwd(disk))
    \/ \E path \in FsPaths : FsStep("chdir", path, "", chdir(disk, path, perms))
    \/ \E path \in FsPaths : FsStep("realpath", path, "", realpath(disk, path, perms))
    \/ \E path \in FsPaths : FsStep("make_temp", path, "", make_temp(disk, path, perms))

SpecFs == InitFs /\ [][NextFs]_vars

---------------------------------------------------------------------------
(* Claims about ops::fs, checked under SpecFs *)

LastFs == Unwrap(lastFs)

\* the Permissions of the run lets the category reach the resource
Permits(cat, resource) ==
    \/ perms[cat].kind = "Granted"
    \/ perms[cat].kind = "GrantedPartial" /\ \E a \in perms[cat].paths : TextBegins(resource, a)

ObservingOps == {"read_text_file", "exists", "metadata", "read_dir", "cwd", "chdir", "realpath"}

MutatingOps == {"write_text_file", "append_text_file", "create_dir", "remove", "make_temp"}

\* the capabilities the last operation needs: read for observing operations,
\* write for mutating ones, write on both paths for rename, read on the
\* source and write on the destination for copy
Needs(last) ==
    IF last.op \in ObservingOps THEN {<<"read", last.path>>}
    ELSE IF last.op \in MutatingOps THEN {<<"write", last.path>>}
    ELSE IF last.op = "rename" THEN {<<"write", last.path>>, <<"write", last.path2>>}
    ELSE {<<"read", last.path>>, <<"write", last.path2>>}

LacksCapability(last) == \E need \in Needs(last) : ~Permits(need[1], need[2])

\* C23: an operation whose capability the Permissions denies returns a
\* Permission error and has reached and changed nothing on the disk
C23_FsOpsGatedByPermissions ==
    IsSome(lastFs) /\ LacksCapability(LastFs) =>
        /\ ~LastFs.result.ok
        /\ LastFs.result.kind = "Permission"
        /\ LastFs.reached = {}
        /\ ~LastFs.changed

\* C23 for the operations that take a Permissions: every operation but cwd
C23_PathOpsGatedByPermissions ==
    IsSome(lastFs) /\ LastFs.op # "cwd" /\ LacksCapability(LastFs) =>
        /\ ~LastFs.result.ok
        /\ LastFs.result.kind = "Permission"
        /\ LastFs.reached = {}
        /\ ~LastFs.changed

\* a rename refused for its second path, after a granted operation changed the disk
C23_PathOpsWitness ==
    /\ IsSome(lastFs)
    /\ LastFs.op = "rename" /\ LastFs.path = "/tmp/a.txt" /\ LastFs.path2 = "/etc/passwd"
    /\ LastFs.n = 2
    /\ "/tmp/new" \in disk.dirs
    /\ ~LastFs.result.ok /\ LastFs.result.kind = "Permission"

---------------------------------------------------------------------------
(* src/ops/timers.rs: TimerRegistry, its timer tasks and its callback executor *)

\* TimerHandle::new: abort_tx is Some(sender)
TimerHandle(id) == [id |-> id, abort_tx |-> TRUE]

\* the task spawned by set_timeout, waiting in select!: the sleep has not
\* elapsed and no abort signal has been sent
NewTask == [pc |-> "select", elapsed |-> FALSE, abort |-> FALSE]

\* the receiver of a timer's abort channel lives as long as its task
ReceiverAlive(id) == id \in DOMAIN tasks /\ tasks[id].pc # "done"

MapRemove(m, id) == [k \in (DOMAIN m) \ {id} |-> m[k]]

MapInsert(m, id, v) == [k \in DOMAIN m \cup {id} |-> IF k = id THEN v ELSE m[k]]

\* the ids clear is called with: every id set_timeout can return, and one more
TimerIds == 1..(MaxTimers + 1)

\* TimerHandle::cancel on the handle of id: the sender is taken and the
\* signal is sent if the receiver is alive
cancel(id) ==
    IF timers[id].abort_tx /\ ReceiverAlive(id) THEN Ok("unit")
    ELSE Err("TimerAlreadyCleared", id)

\* registry.set_timeout(delay_ms, callback): the handle is inserted, the task spawned
SetTimeout ==
    /\ next_id <= MaxTimers
    /\ next_id' = next_id + 1
    /\ timers' = MapInsert(timers, next_id, TimerHandle(next_id))
    /\ tasks' = MapInsert(tasks, next_id, NewTask)
    /\ UNCHANGED <<callback_queue, executed, clearResult>>
    /\ UNCHANGED <<permVars, loaderVars, lastOp, cacheLog, fsVars>>

\* the delay of a sleeping timer task passes
Elapse(id) ==
    /\ id \in DOMAIN tasks
    /\ tasks[id].pc = "select"
    /\ ~tasks[id].elapsed
    /\ tasks' = [tasks EXCEPT ![id].elapsed = TRUE]
    /\ UNCHANGED <<timers, next_id, callback_queue, executed, clearResult>>
    /\ UNCHANGED <<permVars, loaderVars, lastOp, cacheLog, fsVars>>

\* select! takes the sleep branch: the callback is sent to the executor and
\* the task goes on to timers.write().await
TaskFire(id) ==
    /\ id \in DOMAIN tasks
    /\ tasks[id].pc = "select"
    /\ tasks[id].elapsed
    /\ callback_queue' = Append(callback_queue, id)
    /\ tasks' = [tasks EXCEPT ![id].pc = "fired"]
    /\ UNCHANGED <<timers, next_id, executed, clearResult>>
    /\ UNCHANGED <<permVars, loaderVars, lastOp, cacheLog, fsVars>>

\* select! takes the abort branch: a signal was sent or the sender was dropped
TaskAbort(id) ==
    /\ id \in DOMAIN tasks
    /\ tasks[id].pc = "select"
    /\ tasks[id].abort
    /\ tasks' = [tasks EXCEPT ![id].pc = "aborted"]
    /\ UNCHANGED <<timers, next_id, callback_queue, executed, clearResult>>
    /\ UNCHANGED <<permVars, loaderVars, lastOp, cacheLog, fsVars>>

\* timers.write().await.remove(&id) at the end of either branch; the task ends
TaskRemove(id) ==
    /\ id \in DOMAIN tasks
    /\ tasks[id].pc \in {"fired", "aborted"}
    /\ timers' = MapRemove(timers, id)
    /\ tasks' = [tasks EXCEPT ![id].pc = "done"]
    /\ UNCHANGED <<next_id, callback_queue, executed, clearResult>>
    /\ UNCHANGED <<permVars, loaderVars, lastOp, cacheLog, fsVars>>

ClearReturned(id, registered, result) ==
    MapInsert(clearResult, id,
              (IF id \in DOMAIN clearResult THEN clearResult[id] ELSE {})
                 \cup {[registered |-> registered, result |-> result]})

\* registry.clear(id), under the write lock of timers
Clear(id) ==
    /\ IF id \notin DOMAIN timers
       THEN /\ clearResult' = ClearReturned(id, FALSE, Err("InvalidTimerId", id))
            /\ UNCHANGED <<timers, tasks>>
       ELSE IF cancel(id).ok
       THEN /\ tasks' = [tasks EXCEPT ![id].abort = TRUE]
            /\ timers' = MapRemove(timers, id)
            /\ clearResult' = ClearReturned(id, TRUE, Ok("unit"))
       ELSE /\ timers' = [timers EXCEPT ![id].abort_tx = FALSE]
            /\ clearResult' = ClearReturned(id, TRUE, cancel(id))
            /\ UNCHANGED tasks
    /\ UNCHANGED <<next_id, callback_queue, executed>>
    /\ UNCHANGED <<permVars, loaderVars, lastOp, cacheLog, fsVars>>

\* registry.clear_all(): every handle is cancelled and dropped
ClearAll ==
    /\ timers # << >>
    /\ tasks' = [id \in DOMAIN tasks |->
                    IF id \in DOMAIN timers /\ ReceiverAlive(id)
                    THEN [tasks[id] EXCEPT !.abort = TRUE] ELSE tasks[id]]
    /\ timers' = << >>
    /\ UNCHANGED <<next_id, callback_queue, executed, clearResult>>
    /\ UNCHANGED <<permVars, loaderVars, lastOp, cacheLog, fsVars>>

\* the executor task of TimerRegistry::new receives a callback and runs it
RunCallback ==
    /\ callback_queue # << >>
    /\ executed' = executed \cup {Head(callback_queue)}
    /\ callback_queue' = Tail(callback_queue)
    /\ UNCHANGED <<timers, next_id, tasks, clearResult>>
    /\ UNCHANGED <<permVars, loaderVars, lastOp, cacheLog, fsVars>>

\* TimerRegistry::new()
InitTimer ==
    /\ InitPerm

NextTimer ==
    \/ SetTimeout
    \/ \E id \in TimerIds : Elapse(id)
    \/ \E id \in TimerIds : TaskFire(id)
    \/ \E id \in TimerIds : TaskAbort(id)
    \/ \E id \in TimerIds : TaskRemove(id)
    \/ \E id \in TimerIds : Clear(id)
    \/ ClearAll
    \/ RunCallback

SpecTimer == InitTimer /\ [][NextTimer]_vars

---------------------------------------------------------------------------
(* Claims about TimerRegistry, checked under SpecTimer *)

\* the callback of id was sent to the executor
Dispatched(id) ==
    \/ id \in executed
    \/ \E k \in 1..Len(callback_queue) : callback_queue[k] = id

ClearedOk(id) == id \in DOMAIN clearResult /\ \E r \in clearResult[id] : r.result.ok

\* C24: a timeout whose clear(id) returned Ok is never dispatched or executed,
\* and clear(id) for an id not in the registry returns InvalidTimerId
C24_ClearedTimeoutNeverFires ==
    \A id \in TimerIds :
        /\ ClearedOk(id) => ~Dispatched(id)
        /\ id \in DOMAIN clearResult =>
              \A r \in clearResult[id] :
                  ~r.registered => ~r.result.ok /\ r.result.kind = "InvalidTimerId"

---------------------------------------------------------------------------
(* Claims about the Loading Set under concurrent calls, checked under Spec *)

\* call c leaves the circular-dependency check in this step
LeavesCheck(c) == calls[c].pc = "check" /\ calls'[c].pc \notin {"check", "cancelled"}

\* C27: a load_module call whose canonical specifier resolve(s, r) is in the
\* Loading Set when the call makes its cycle check fails with
\* CircularDependency, however s is spelled
C27_CycleCheckOnCanonical ==
    [][\A c \in Calls :
          LeavesCheck(c) /\ CanonicalOf(c).ok /\ InLoadingSet(CanonicalOf(c).val) =>
              /\ calls'[c].pc = "done"
              /\ FailedWith(Unwrap(calls'[c].result), "CircularDependency")]_vars

\* call c has inserted its canonical specifier and has not yet removed it
BetweenInsertAndRemoval(c) ==
    /\ calls[c].api = "load_module"
    /\ calls[c].pushed
    /\ calls[c].pc \in {"load_cache", "load_src", "cache_insert", "retain"}

\* C28: the canonical specifier of every call that is between its Loading Set
\* insert and its own removal is in the Loading Set: no other call's removal
\* takes the entry away
C28_EntryHeldWhileInFlight ==
    \A c \in Calls : BetweenInsertAndRemoval(c) => InLoadingSet(ResolvedOf(c))

---------------------------------------------------------------------------
(* load_module called again and again for one module of a loader with *)
(* caching enabled and every capability granted                        *)

\* two spellings of /proj/a.js
SameModuleRequests == {Request("/proj/a.js", None), Request("./a.js", None)}

\* ModuleLoader::new(Permissions::allow_all(), ModuleLoaderConfig::default())
InitSameModule ==
    /\ perms = allow_all
    /\ origin = "allow_all"
    /\ nGrants = 0
    /\ lastCheck = None
    /\ config = DefaultConfig
    /\ fs = InitialFs
    /\ nWrites = 0
    /\ cache = << >>
    /\ cacheBy = << >>
    /\ loading = << >>
    /\ calls = [c \in 1..NSameModuleCalls |-> IdleCall]
    /\ lastOp = None
    /\ InitHostIdle

NextSameModule ==
    \/ \E c \in Calls, r \in SameModuleRequests : StartLoadModule(c, r)
    \/ \E c \in Calls : CycleCheck(c)
    \/ \E c \in Calls : Resolve(c)
    \/ \E c \in Calls : Push(c)
    \/ \E c \in Calls : LoadCache(c)
    \/ \E c \in Calls : LoadSource(c)
    \/ \E c \in Calls : CacheInsert(c)
    \/ \E c \in Calls : Retain(c)
    \/ \E c \in Calls : Cancel(c)
    \/ \E path \in ChangingFiles, code \in Contents : WriteFile(path, code)

SpecSameModule == InitSameModule /\ [][NextSameModule]_vars

---------------------------------------------------------------------------
(* Claims about cache hits, checked under SpecSameModule *)

\* call d made its cycle check after a load_module call had succeeded for
\* the canonical specifier d resolves to
CalledAfterSuccess(d) ==
    /\ calls[d].api = "load_module"
    /\ calls[d].pc \notin {"idle", "check", "cancelled"}
    /\ CanonicalOf(d).ok
    /\ CanonicalOf(d).val \in calls[d].succeeded

\* C25: with caching enabled, a load_module call made after a call for the
\* same canonical specifier has succeeded returns the cached module: it
\* never fails, acquires no source, and neither pushes onto the Loading Set
\* nor inserts into the cache
C25_LaterCallsReturnCached ==
    \A d \in Calls :
        config.cache_enabled /\ CalledAfterSuccess(d) =>
            /\ calls[d].acquisitions = 0
            /\ ~calls[d].pushed
            /\ ~calls[d].inserted
            /\ calls[d].pc \in {"resolve", "done"}
            /\ Returned(d) =>
                  /\ ResultOf(d).ok
                  /\ ResultOf(d).val.specifier = CanonicalOf(d).val

---------------------------------------------------------------------------
(* Claims about what resolve returns, checked under SpecResolve *)

\* C29: with remote resolution disabled in the configuration, no canonical
\* specifier that resolve returns begins with http:// or https://
C29_NoRemoteCanonicalWhenDisabled ==
    Applied("resolve") /\ ~config.allow_remote /\ LastOp.result.ok => ~IsUrl(LastOp.result.val)

\* C30: resolving a canonical specifier that resolve returned, with the same
\* referrer, returns it again
C30_ResolveIsIdempotent ==
    Applied("resolve_again") => LastOp.result = Ok(LastOp.specifier)

===========================================================================
